---- MODULE Spec2Model ----
(***************************************************************************)
(* Model of the Pavlov replay toolbox core: the container assembler        *)
(* (tools/build_replay.rs), the metadata block (build_meta.rs), the write  *)
(* buffer (replay_buffer.rs), the retry helpers, the online pipeline and   *)
(* the local pipeline (tools/replay_processor.rs).                         *)
(*                                                                         *)
(* Bytes are integers 0..255, byte strings are sequences of bytes, Rust    *)
(* Strings are sequences of Unicode scalar values, Option<T> is a record   *)
(* with a `some` flag.                                                     *)
(***************************************************************************)
EXTENDS Integers, Sequences, FiniteSets, TLC

VARIABLES
    \* build_replay(parts): its argument, its first-pass size, its result
    parts, total_size, buffers,
    \* a retry helper called alone: GET or POST, its max_retries argument
    method, max_retries,
    \* the retry helper call in progress (of the helper alone, or of the
    \* sequential steps of download_replay)
    call,
    \* download_replay(replay_id): where it stands, whether the HTTP client
    \* was built, the helper calls it made, its result
    replay_id, pc, client_built, requests, result,
    \* its locals
    offset, find_all_response, start_download, meta, events, events_pavlov,
    download_chunks,
    \* the parallel stream fetches and the order in which they completed
    tasks, collected,
    \* the service: the total its find endpoint reports
    svc_total,
    \* the build profile: whether integer overflow is checked (a panic) or wraps
    overflow_checks,
    \* build_meta(meta) called alone: its argument and its result
    bm_meta, bm_result,
    \* a ReplayBuffer used alone: the buffer, and its last call with the
    \* buffer before it and what it returned
    rbuf, rbuf_call,
    \* process_replay(config): the chunk directory it reads, its argument,
    \* where it stands, its locals, the Progress snapshots it passed to the
    \* callback, its result and the file it wrote
    chunks_dir, config, lp_pc, index, stream_files, lp_chunks, progress,
    snapshots, current_offset, lp_result, output_file,
    \* the length fields of one chunk's body, computed from the lengths of
    \* its data and strings: the lengths, and what build_replay writes
    lf_chunk, lf_fields,
    \* the application (app.rs): the fields of ReplayApp the UI thread owns
    \* and where it stands in update(), the three shared cells, who holds
    \* the mutex of each, the worker threads spawned so far, the ids in the
    \* downloaded channel, the settings, the .replay files on disk
    app, app_status, app_progress, download_progress, locks, workers,
    downloaded_tx, settings, replay_files

brVars == <<parts, total_size, buffers>>

rtVars == <<method, max_retries>>

dlLocals == <<offset, find_all_response, start_download, meta, events,
              events_pavlov, download_chunks>>

dlVars == <<replay_id, pc, client_built, requests, result, offset,
            find_all_response, start_download, meta, events, events_pavlov,
            download_chunks, tasks, collected, svc_total>>

bmVars == <<bm_meta, bm_result>>

rbVars == <<rbuf, rbuf_call>>

prVars == <<chunks_dir, config, lp_pc, index, stream_files, lp_chunks, progress,
            snapshots, current_offset, lp_result, output_file>>

lfVars == <<lf_chunk, lf_fields>>

uiVars == <<app, app_status, app_progress, download_progress, locks, workers,
            downloaded_tx, settings, replay_files>>

\* The build profile and the variables of the harnesses that stand alone
envVars == <<overflow_checks, lfVars, uiVars>>

\* The variables of the assembler, the retry helpers and download_replay
coreVars == <<brVars, rtVars, call, dlVars>>

\* The variables none of these three touches
restVars == <<envVars, bmVars, rbVars, prVars>>

vars == <<parts, total_size, buffers, method, max_retries, call, replay_id, pc,
          client_built, requests, result, offset, find_all_response,
          start_download, meta, events, events_pavlov, download_chunks, tasks,
          collected, svc_total, overflow_checks, bm_meta, bm_result, rbuf, rbuf_call, chunks_dir, config,
          lp_pc, index, stream_files, lp_chunks, progress, snapshots,
          current_offset, lp_result, output_file, lf_chunk, lf_fields,
          app, app_status, app_progress, download_progress, locks, workers,
          downloaded_tx, settings, replay_files>>

----------------------------------------------------------------------------
\* Option<T>

None == [some |-> FALSE]

Some(x) == [some |-> TRUE, v |-> x]

\* Option::unwrap_or
UnwrapOr(o, d) == IF o.some THEN o.v ELSE d

----------------------------------------------------------------------------
\* Integer encodings

\* u32::to_le_bytes, for values below 2^31
U32LE(n) ==
    <<n % 256, (n \div 256) % 256, (n \div 65536) % 256, (n \div 16777216) % 256>>

\* i32::to_le_bytes: two's complement, least significant byte first
I32LE(v) ==
    IF v >= 0 THEN U32LE(v)
    ELSE LET u == (v + 2147483647) + 1
             b == U32LE(u)
         IN  <<b[1], b[2], b[3], b[4] + 128>>

\* `n as i32` for a usize n: the low 32 bits read as two's complement.
\* Lengths of the model stay below 2^31, where the cast keeps the value.
AsI32(n) == n

\* One Unicode scalar value as UTF-8 (str::as_bytes of a one-char string)
Utf8Char(c) ==
    IF c < 128 THEN <<c>>
    ELSE IF c < 2048 THEN <<192 + (c \div 64), 128 + (c % 64)>>
    ELSE IF c < 65536 THEN
        <<224 + (c \div 4096), 128 + ((c \div 64) % 64), 128 + (c % 64)>>
    ELSE <<240 + (c \div 262144), 128 + ((c \div 4096) % 64),
           128 + ((c \div 64) % 64), 128 + (c % 64)>>

RECURSIVE Utf8(_)
\* String::as_bytes
Utf8(s) == IF s = <<>> THEN <<>> ELSE Utf8Char(Head(s)) \o Utf8(Tail(s))

\* String::len: the length in UTF-8 bytes
StrLen(s) == Len(Utf8(s))

----------------------------------------------------------------------------
\* replay_buffer.rs

\* ReplayBuffer::with_capacity
with_capacity(capacity) == [buffer |-> [i \in 1..capacity |-> 0], pos |-> 0]

\* Result<(), Box<dyn Error>> of a write, with the buffer after the call
RbOk(rb) == [ok |-> TRUE, rb |-> rb]

RbErr(rb, msg) == [ok |-> FALSE, rb |-> rb, err |-> msg]

\* copy_from_slice into buffer[pos .. pos + len]
CopyAt(buffer, pos, bytes) ==
    [i \in 1..Len(buffer) |->
        IF i > pos /\ i <= pos + Len(bytes) THEN bytes[i - pos] ELSE buffer[i]]

\* write_int32 storing the most significant byte first
write_int32MutBigEndian(rb, value) ==
    IF rb.pos + 4 > Len(rb.buffer) THEN RbErr(rb, "Buffer overflow while writing int32")
    ELSE LET le == I32LE(value)
         IN  RbOk([buffer |-> CopyAt(rb.buffer, rb.pos, <<le[4], le[3], le[2], le[1]>>),
                   pos |-> rb.pos + 4])

write_int32(rb, value) ==
    IF rb.pos + 4 > Len(rb.buffer) THEN RbErr(rb, "Buffer overflow while writing int32")
    ELSE RbOk([buffer |-> CopyAt(rb.buffer, rb.pos, I32LE(value)), pos |-> rb.pos + 4])

\* An i64 is kept as its little-endian base-256 digits; to_le_bytes keeps the
\* low 8 of them
I64LE(digits) == [i \in 1..8 |-> IF i <= Len(digits) THEN digits[i] ELSE 0]

\* write_int64 advancing the cursor by 4
write_int64MutAdvance4(rb, value) ==
    IF rb.pos + 8 > Len(rb.buffer) THEN RbErr(rb, "Buffer overflow while writing int64")
    ELSE RbOk([buffer |-> CopyAt(rb.buffer, rb.pos, I64LE(value)), pos |-> rb.pos + 4])

write_int64(rb, value) ==
    IF rb.pos + 8 > Len(rb.buffer) THEN RbErr(rb, "Buffer overflow while writing int64")
    ELSE RbOk([buffer |-> CopyAt(rb.buffer, rb.pos, I64LE(value)), pos |-> rb.pos + 8])

\* write_bytes refusing a write that ends exactly at the capacity
write_bytesMutExactFit(rb, bytes) ==
    IF rb.pos + Len(bytes) >= Len(rb.buffer)
    THEN RbErr(rb, "Buffer overflow while writing bytes")
    ELSE RbOk([buffer |-> CopyAt(rb.buffer, rb.pos, bytes), pos |-> rb.pos + Len(bytes)])

write_bytes(rb, bytes) ==
    IF rb.pos + Len(bytes) > Len(rb.buffer)
    THEN RbErr(rb, "Buffer overflow while writing bytes")
    ELSE RbOk([buffer |-> CopyAt(rb.buffer, rb.pos, bytes), pos |-> rb.pos + Len(bytes)])

\* validate accepting a cursor beyond the expected size
validateMutAtLeast(rb, expected) ==
    IF rb.pos < expected
    THEN [ok |-> FALSE, rb |-> rb, err |-> "Invalid buffer size",
          expected |-> expected, wrote |-> rb.pos]
    ELSE RbOk(rb)

\* ReplayBuffer::validate: the final offset equals the expected size
validate(rb, expected) ==
    IF rb.pos # expected
    THEN [ok |-> FALSE, rb |-> rb, err |-> "Invalid buffer size",
          expected |-> expected, wrote |-> rb.pos]
    ELSE RbOk(rb)

\* One buffered write of build_meta, by kind
ApplyWrite(rb, w) ==
    CASE w.op = "int32" -> write_int32(rb, w.v)
      [] w.op = "int64" -> write_int64(rb, w.v)
      [] w.op = "bytes" -> write_bytes(rb, w.v)

RECURSIVE WriteAll(_, _)
\* A run of writes, each followed by `?`: the first error ends the run
WriteAll(rb, ws) ==
    IF ws = <<>> THEN RbOk(rb)
    ELSE LET r == ApplyWrite(rb, Head(ws))
         IN  IF r.ok THEN WriteAll(r.rb, Tail(ws)) ELSE r

----------------------------------------------------------------------------
\* Arithmetic on naturals kept as little-endian base-256 digits (the tick
\* count does not fit the checker's integers)

RECURSIVE NatDigits(_)
NatDigits(n) == IF n = 0 THEN <<>> ELSE <<n % 256>> \o NatDigits(n \div 256)

RECURSIVE MulDigits(_, _, _)
\* digits * k + carry, for a small k
MulDigits(d, k, carry) ==
    IF d = <<>> THEN NatDigits(carry)
    ELSE LET t == Head(d) * k + carry
         IN  <<t % 256>> \o MulDigits(Tail(d), k, t \div 256)

RECURSIVE AddDigits(_, _, _)
AddDigits(a, b, carry) ==
    IF a = <<>> /\ b = <<>> THEN NatDigits(carry)
    ELSE LET x == IF a = <<>> THEN 0 ELSE Head(a)
             y == IF b = <<>> THEN 0 ELSE Head(b)
             t == x + y + carry
         IN  <<t % 256>> \o AddDigits(IF a = <<>> THEN a ELSE Tail(a),
                                      IF b = <<>> THEN b ELSE Tail(b), t \div 256)

----------------------------------------------------------------------------
\* build_meta.rs

FRIENDLY_NAME_SIZE == 514

\* 621355968000000000 = 0x089F7FF5F7B58000: the ticks from year 1 to 1970
EpochTicks == <<0, 128, 181, 247, 245, 127, 159, 8>>

\* The literals of the display string, as scalar values
StrCompetitive == <<99, 111, 109, 112, 101, 116, 105, 116, 105, 118, 101>>

StrCasual == <<99, 97, 115, 117, 97, 108>>

StrTrue == <<116, 114, 117, 101>>

StrFalse == <<102, 97, 108, 115, 101>>

StrComma == <<44>>

StrZero == <<48>>

\* One scalar value as UTF-16 code units (str::encode_utf16)
Utf16Units(c) ==
    IF c < 65536 THEN <<c>>
    ELSE <<55296 + ((c - 65536) \div 1024), 56320 + ((c - 65536) % 1024)>>

RECURSIVE Utf16LE(_)
\* encode_utf16().flat_map(|u| u.to_le_bytes()): the bytes of each character's
\* code units, in the order of the characters (the string is taken by halves
\* to keep the nesting shallow)
Utf16LE(s) ==
    IF s = <<>> THEN <<>>
    ELSE IF Len(s) = 1
    THEN LET u == Utf16Units(s[1])
         IN  [i \in 1..(2 * Len(u)) |->
                IF i % 2 = 1 THEN u[(i + 1) \div 2] % 256
                ELSE u[i \div 2] \div 256]
    ELSE LET half == Len(s) \div 2
         IN  Utf16LE(SubSeq(s, 1, half)) \o Utf16LE(SubSeq(s, half + 1, Len(s)))

\* format!("{},{},{},0,{},{}", gameMode, friendlyName, competitive_str,
\*         workshop_mods, live)
FriendlyNameStr(md) ==
    md.gameMode \o StrComma \o md.friendlyName \o StrComma
        \o (IF md.competitive THEN StrCompetitive ELSE StrCasual)
        \o StrComma \o StrZero \o StrComma \o md.workshop_mods \o StrComma
        \o (IF md.live THEN StrTrue ELSE StrFalse)

\* FriendlyNameBuffer without the space padding (a zero-filled block)
FriendlyNameBufferMutZeroPad(name_bytes) ==
    LET copy_len == IF Len(name_bytes) < FRIENDLY_NAME_SIZE
                    THEN Len(name_bytes) ELSE FRIENDLY_NAME_SIZE
    IN  [i \in 1..FRIENDLY_NAME_SIZE |->
            IF i <= copy_len THEN name_bytes[i] ELSE 0]

\* FriendlyNameBuffer copying at most 513 bytes of the encoded string
FriendlyNameBufferMutOddCut(name_bytes) ==
    LET padded == [i \in 1..FRIENDLY_NAME_SIZE |->
                      IF i <= FRIENDLY_NAME_SIZE - 2 /\ i % 2 = 1 THEN 32 ELSE 0]
        copy_len == IF Len(name_bytes) < FRIENDLY_NAME_SIZE - 1
                    THEN Len(name_bytes) ELSE FRIENDLY_NAME_SIZE - 1
    IN  [i \in 1..FRIENDLY_NAME_SIZE |->
            IF i <= copy_len THEN name_bytes[i] ELSE padded[i]]

\* The 514-byte block: UTF-16LE spaces, a NUL code unit at the end, then the
\* first min(len, 514) bytes of the encoded string copied over the start
FriendlyNameBuffer(name_bytes) ==
    LET padded == [i \in 1..FRIENDLY_NAME_SIZE |->
                      IF i <= FRIENDLY_NAME_SIZE - 2 /\ i % 2 = 1 THEN 32 ELSE 0]
        copy_len == IF Len(name_bytes) < FRIENDLY_NAME_SIZE
                    THEN Len(name_bytes) ELSE FRIENDLY_NAME_SIZE
    IN  [i \in 1..FRIENDLY_NAME_SIZE |->
            IF i <= copy_len THEN name_bytes[i] ELSE padded[i]]

\* a < b for naturals kept as digits without leading zeros
DigitsLess(a, b) ==
    \/ Len(a) < Len(b)
    \/ /\ Len(a) = Len(b)
       /\ \E i \in 1..Len(a) :
            a[i] < b[i] /\ \A j \in (i + 1)..Len(a) : a[j] = b[j]

\* The largest seconds count DateTime::from_timestamp accepts (the end of
\* year 262142): 8210266876799
MaxTimestamp == <<127, 107, 10, 154, 119, 7>>

\* A created string that parses in no way taken as the epoch
ParseCreatedMutDefaultsToEpoch(created) ==
    CASE created.kind = "rfc3339" ->
            [ok |-> TRUE, secs |-> NatDigits(created.secs), ms |-> created.ms]
      [] created.kind = "int" ->
            IF DigitsLess(MaxTimestamp, created.digits)
            THEN [ok |-> FALSE, err |-> "Invalid timestamp"]
            ELSE [ok |-> TRUE, secs |-> created.digits, ms |-> 0]
      [] OTHER -> [ok |-> TRUE, secs |-> <<>>, ms |-> 0]

\* DateTime::parse_from_rfc3339(created), or else created.parse::<i64>() taken
\* as Unix seconds by DateTime::from_timestamp(ts, 0).  A created string is
\* kept by what it parses to: an RFC3339 instant (seconds and milliseconds
\* since 1970), an integer (its digits), or neither.
ParseCreated(created) ==
    CASE created.kind = "rfc3339" ->
            [ok |-> TRUE, secs |-> NatDigits(created.secs), ms |-> created.ms]
      [] created.kind = "int" ->
            IF DigitsLess(MaxTimestamp, created.digits)
            THEN [ok |-> FALSE, err |-> "Invalid timestamp"]
            ELSE [ok |-> TRUE, secs |-> created.digits, ms |-> 0]
      [] OTHER -> [ok |-> FALSE, err |-> "created does not parse"]

\* A natural fits an i64: it is below 2^63
FitsI64(d) == Len(d) < 8 \/ (Len(d) = 8 /\ d[8] < 128)

\* created_time.timestamp_millis() * 10000 + 621355968000000000 in i64: the
\* exact value, and whether the product or the sum leaves the i64 range
Ticks(t) ==
    LET millis == AddDigits(MulDigits(t.secs, 1000, 0), NatDigits(t.ms), 0)
        product == MulDigits(millis, 10000, 0)
        sum == AddDigits(product, EpochTicks, 0)
    IN  [value |-> sum, overflow |-> ~FitsI64(product) \/ ~FitsI64(sum)]

Int32(v) == [op |-> "int32", v |-> v]

\* build_meta: Ok(the record), the first error, or a panic (480436863 =
\* 0x1CA2E27F).  An overflowing tick count panics where overflow is checked
\* and wraps to its low 64 bits where it is not.
build_meta(md, checks) ==
    LET expected_size == 48 + FRIENDLY_NAME_SIZE
        buf0 == with_capacity(expected_size)
        name_bytes == Utf16LE(FriendlyNameStr(md))
        r1 == WriteAll(buf0,
                <<Int32(480436863), Int32(6), Int32(md.totalTime),
                  Int32(md.version), Int32(0), Int32(-257),
                  [op |-> "bytes", v |-> FriendlyNameBuffer(name_bytes)],
                  Int32(IF md.live THEN 1 ELSE 0)>>)
        created_time == ParseCreated(md.created)
        timestamp == Ticks(created_time)
        r2 == WriteAll(r1.rb,
                <<[op |-> "int64", v |-> timestamp.value],
                  Int32(0), Int32(0), Int32(0)>>)
        r3 == validate(r2.rb, expected_size)
    IN  IF ~r1.ok THEN [tag |-> "Err", err |-> r1.err]
        ELSE IF ~created_time.ok THEN [tag |-> "Err", err |-> created_time.err]
        ELSE IF timestamp.overflow /\ checks
             THEN [tag |-> "Panic", err |-> "arithmetic overflow"]
        ELSE IF ~r2.ok THEN [tag |-> "Err", err |-> r2.err]
        ELSE IF ~r3.ok THEN [tag |-> "Err", err |-> r3.err]
        ELSE [tag |-> "Ok", v |-> r3.rb.buffer]

----------------------------------------------------------------------------
\* tools/build_replay.rs

Chunk(data, chunk_type, time1, time2, id, group, metadata, size_in_bytes) ==
    [data |-> data, chunk_type |-> chunk_type, time1 |-> time1, time2 |-> time2,
     id |-> id, group |-> group, metadata |-> metadata,
     size_in_bytes |-> size_in_bytes]

MetaPart(data) == [kind |-> "Meta", data |-> data]

ChunkPart(chunk) == [kind |-> "Chunk", chunk |-> chunk]

\* write_string_buffer whose length field leaves out the null terminator
write_string_bufferMutLenNoNul(s) ==
    LET s_bytes == Utf8(s \o <<0>>)
        length == AsI32(Len(Utf8(s)))
    IN  I32LE(length) \o s_bytes

\* write_string_buffer: [int32 length][utf8 bytes with null terminator]
write_string_buffer(s) ==
    LET s_bytes == Utf8(s \o <<0>>)
        length == AsI32(Len(s_bytes))
    IN  I32LE(length) \o s_bytes

\* First pass, one part: what it adds to total_size
PartSize(part) ==
    IF part.kind = "Meta" THEN Len(part.data)
    ELSE LET chunk == part.chunk
             id_len == IF chunk.id.some THEN StrLen(chunk.id.v) + 5 ELSE 5
             group_len == IF chunk.group.some THEN StrLen(chunk.group.v) + 5 ELSE 5
             meta_len == IF chunk.metadata.some THEN StrLen(chunk.metadata.v) + 5 ELSE 5
         IN  8 + CASE chunk.chunk_type = 0 -> Len(chunk.data)
                   [] chunk.chunk_type = 1 -> 16 + Len(chunk.data)
                   [] chunk.chunk_type \in {2, 3} ->
                        id_len + group_len + meta_len + 12 + Len(chunk.data)
                   [] OTHER -> 0

RECURSIVE TotalSize(_)
\* First pass: the pre-calculated total buffer size
TotalSize(ps) == IF ps = <<>> THEN 0 ELSE PartSize(Head(ps)) + TotalSize(Tail(ps))

\* ChunkBody writing size_in_bytes, when set, in the place of the data length
ChunkBodyMutLenFromSize(chunk) ==
    CASE chunk.chunk_type = 0 -> [tag |-> "Body", v |-> chunk.data]
      [] chunk.chunk_type = 1 ->
            LET time1 == UnwrapOr(chunk.time1, 0)
                time2 == UnwrapOr(chunk.time2, 0)
                size_in_bytes == UnwrapOr(chunk.size_in_bytes,
                                          AsI32(Len(chunk.data)))
                data_len == size_in_bytes
                header_buf == I32LE(time1) \o I32LE(time2) \o I32LE(data_len)
                                \o I32LE(size_in_bytes)
            IN  [tag |-> "Body", v |-> header_buf \o chunk.data]
      [] chunk.chunk_type \in {2, 3} ->
            IF ~chunk.id.some \/ ~chunk.group.some THEN [tag |-> "Panic"]
            ELSE LET id_buf == write_string_buffer(chunk.id.v)
                     group_buf == write_string_buffer(chunk.group.v)
                     meta_str == UnwrapOr(chunk.metadata, <<>>)
                     meta_buf == write_string_buffer(meta_str)
                     time1 == UnwrapOr(chunk.time1, 0)
                     time2 == UnwrapOr(chunk.time2, 0)
                     data_len == AsI32(Len(chunk.data))
                     int_buf == I32LE(time1) \o I32LE(time2) \o I32LE(data_len)
                 IN  [tag |-> "Body",
                      v |-> id_buf \o group_buf \o meta_buf \o int_buf \o chunk.data]
      [] OTHER -> [tag |-> "Skip"]

\* The match on chunk.chunk_type: the body buffer, a skip (`continue`) for an
\* unknown type, or the panic of unwrap() on a missing id or group
ChunkBody(chunk) ==
    CASE chunk.chunk_type = 0 -> [tag |-> "Body", v |-> chunk.data]
      [] chunk.chunk_type = 1 ->
            LET time1 == UnwrapOr(chunk.time1, 0)
                time2 == UnwrapOr(chunk.time2, 0)
                data_len == AsI32(Len(chunk.data))
                size_in_bytes == UnwrapOr(chunk.size_in_bytes, data_len)
                header_buf == I32LE(time1) \o I32LE(time2) \o I32LE(data_len)
                                \o I32LE(size_in_bytes)
            IN  [tag |-> "Body", v |-> header_buf \o chunk.data]
      [] chunk.chunk_type \in {2, 3} ->
            IF ~chunk.id.some \/ ~chunk.group.some THEN [tag |-> "Panic"]
            ELSE LET id_buf == write_string_buffer(chunk.id.v)
                     group_buf == write_string_buffer(chunk.group.v)
                     meta_str == UnwrapOr(chunk.metadata, <<>>)
                     meta_buf == write_string_buffer(meta_str)
                     time1 == UnwrapOr(chunk.time1, 0)
                     time2 == UnwrapOr(chunk.time2, 0)
                     data_len == AsI32(Len(chunk.data))
                     int_buf == I32LE(time1) \o I32LE(time2) \o I32LE(data_len)
                 IN  [tag |-> "Body",
                      v |-> id_buf \o group_buf \o meta_buf \o int_buf \o chunk.data]
      [] OTHER -> [tag |-> "Skip"]

\* The 8-byte chunk header: [chunk_type (int32), body length (int32)]
ChunkHeaderMutLen(chunk, body_buffer) ==
    U32LE(chunk.chunk_type) \o I32LE(AsI32(Len(body_buffer)) + 8)

ChunkHeaderMutSwap(chunk, body_buffer) ==
    I32LE(AsI32(Len(body_buffer))) \o U32LE(chunk.chunk_type)

ChunkHeader(chunk, body_buffer) ==
    LET body_len == AsI32(Len(body_buffer))
    IN  U32LE(chunk.chunk_type) \o I32LE(body_len)

\* Second pass, one part: the output buffer after the part (or the panic)
WritePartMutPrepend(bufs, part) ==
    IF part.kind = "Meta" THEN [tag |-> "Ok", v |-> part.data \o bufs]
    ELSE LET body == ChunkBody(part.chunk)
         IN  CASE body.tag = "Panic" -> [tag |-> "Panic"]
               [] body.tag = "Skip" -> [tag |-> "Ok", v |-> bufs]
               [] OTHER ->
                    [tag |-> "Ok",
                     v |-> ChunkHeader(part.chunk, body.v) \o body.v \o bufs]

\* WritePart writing an empty chunk for an unknown type instead of skipping it
WritePartMutUnknownHeader(bufs, part) ==
    IF part.kind = "Meta" THEN [tag |-> "Ok", v |-> bufs \o part.data]
    ELSE LET body == ChunkBody(part.chunk)
         IN  CASE body.tag = "Panic" -> [tag |-> "Panic"]
               [] body.tag = "Skip" ->
                    [tag |-> "Ok", v |-> bufs \o ChunkHeader(part.chunk, <<>>)]
               [] OTHER ->
                    [tag |-> "Ok",
                     v |-> bufs \o ChunkHeader(part.chunk, body.v) \o body.v]

WritePart(bufs, part) ==
    IF part.kind = "Meta" THEN [tag |-> "Ok", v |-> bufs \o part.data]
    ELSE LET body == ChunkBody(part.chunk)
         IN  CASE body.tag = "Panic" -> [tag |-> "Panic"]
               [] body.tag = "Skip" -> [tag |-> "Ok", v |-> bufs]
               [] OTHER ->
                    [tag |-> "Ok",
                     v |-> bufs \o ChunkHeader(part.chunk, body.v) \o body.v]

RECURSIVE WriteParts(_, _)
\* Second pass: the loop over the parts
WriteParts(ps, bufs) ==
    IF ps = <<>> THEN [tag |-> "Ok", v |-> bufs]
    ELSE LET r == WritePart(bufs, Head(ps))
         IN  IF r.tag = "Panic" THEN r ELSE WriteParts(Tail(ps), r.v)

\* build_replay: Ok(buffers), or the panic of an unwrap()
build_replay(ps) == WriteParts(ps, <<>>)

----------------------------------------------------------------------------
\* tools/replay_processor.rs: get_with_retry, post_with_retry

\* What one send() gives: a transport error, or a response with a status
TransportError == [kind |-> "transport"]

Response(status) == [kind |-> "response", status |-> status]

\* StatusCode::is_success
IsSuccess(status) == status >= 200 /\ status < 300

Pending == [tag |-> "Pending"]

\* The locals of a helper call at its start (backoff in seconds), with the
\* sends made, the sleeps taken and the outcomes seen so far
NewCall ==
    [attempt |-> 0, backoff |-> 2, sends |-> 0, slept |-> <<>>,
     outcomes |-> <<>>, ret |-> Pending]

\* No helper call
NoCall == [attempt |-> 0, backoff |-> 0, sends |-> 0, slept |-> <<>>,
           outcomes |-> <<>>, ret |-> [tag |-> "None"]]

\* A helper call that has returned: its locals are gone, its result is kept
EndCall(c) == [NoCall EXCEPT !.ret = c.ret]

\* One iteration of the loop of get_with_retry: send, then match the outcome
GetStepMutOffByOne(c, retries, outcome) ==
    LET sent == [c EXCEPT !.sends = @ + 1, !.outcomes = Append(@, outcome)]
    IN  IF outcome.kind = "response"
        THEN IF IsSuccess(outcome.status)
             THEN [sent EXCEPT !.ret = [tag |-> "Ok", status |-> outcome.status]]
             ELSE [sent EXCEPT !.ret = [tag |-> "Err", kind |-> "status",
                                        status |-> outcome.status]]
        ELSE LET attempt == sent.attempt + 1
             IN  IF attempt > retries
                 THEN [sent EXCEPT !.attempt = attempt,
                                   !.ret = [tag |-> "Err", kind |-> "attempts",
                                            attempts |-> attempt]]
                 ELSE [sent EXCEPT !.attempt = attempt,
                                   !.slept = Append(@, sent.backoff),
                                   !.backoff = @ * 2]

GetStepMutRetryStatus(c, retries, outcome) ==
    LET sent == [c EXCEPT !.sends = @ + 1, !.outcomes = Append(@, outcome)]
    IN  IF outcome.kind = "response" /\ IsSuccess(outcome.status)
        THEN [sent EXCEPT !.ret = [tag |-> "Ok", status |-> outcome.status]]
        ELSE LET attempt == sent.attempt + 1
             IN  IF attempt >= retries
                 THEN [sent EXCEPT !.attempt = attempt,
                                   !.ret = [tag |-> "Err", kind |-> "attempts",
                                            attempts |-> attempt]]
                 ELSE [sent EXCEPT !.attempt = attempt,
                                   !.slept = Append(@, sent.backoff),
                                   !.backoff = @ * 2]

\* get_with_retry with a backoff that grows by 2 seconds
GetStepMutLinearBackoff(c, retries, outcome) ==
    LET sent == [c EXCEPT !.sends = @ + 1, !.outcomes = Append(@, outcome)]
    IN  IF outcome.kind = "response"
        THEN IF IsSuccess(outcome.status)
             THEN [sent EXCEPT !.ret = [tag |-> "Ok", status |-> outcome.status]]
             ELSE [sent EXCEPT !.ret = [tag |-> "Err", kind |-> "status",
                                        status |-> outcome.status]]
        ELSE LET attempt == sent.attempt + 1
             IN  IF attempt >= retries
                 THEN [sent EXCEPT !.attempt = attempt,
                                   !.ret = [tag |-> "Err", kind |-> "attempts",
                                            attempts |-> attempt]]
                 ELSE [sent EXCEPT !.attempt = attempt,
                                   !.slept = Append(@, sent.backoff),
                                   !.backoff = @ + 2]

GetStep(c, retries, outcome) ==
    LET sent == [c EXCEPT !.sends = @ + 1, !.outcomes = Append(@, outcome)]
    IN  IF outcome.kind = "response"
        THEN IF IsSuccess(outcome.status)
             THEN [sent EXCEPT !.ret = [tag |-> "Ok", status |-> outcome.status]]
             ELSE [sent EXCEPT !.ret = [tag |-> "Err", kind |-> "status",
                                        status |-> outcome.status]]
        ELSE LET attempt == sent.attempt + 1
             IN  IF attempt >= retries
                 THEN [sent EXCEPT !.attempt = attempt,
                                   !.ret = [tag |-> "Err", kind |-> "attempts",
                                            attempts |-> attempt]]
                 ELSE [sent EXCEPT !.attempt = attempt,
                                   !.slept = Append(@, sent.backoff),
                                   !.backoff = @ * 2]

\* One iteration of the loop of post_with_retry
PostStep(c, retries, outcome) ==
    LET sent == [c EXCEPT !.sends = @ + 1, !.outcomes = Append(@, outcome)]
    IN  IF outcome.kind = "response"
        THEN IF IsSuccess(outcome.status)
             THEN [sent EXCEPT !.ret = [tag |-> "Ok", status |-> outcome.status]]
             ELSE [sent EXCEPT !.ret = [tag |-> "Err", kind |-> "status",
                                        status |-> outcome.status]]
        ELSE LET attempt == sent.attempt + 1
             IN  IF attempt >= retries
                 THEN [sent EXCEPT !.attempt = attempt,
                                   !.ret = [tag |-> "Err", kind |-> "attempts",
                                            attempts |-> attempt]]
                 ELSE [sent EXCEPT !.attempt = attempt,
                                   !.slept = Append(@, sent.backoff),
                                   !.backoff = @ * 2]

----------------------------------------------------------------------------
\* A retry helper called alone, against a transport that answers each send
\* with a transport error or a response

\* The largest max_retries argument tried
MaxRetriesArg == 6

\* The statuses the transport answers with
Statuses == {200, 204, 301, 404, 500}

RetryOutcomes == { TransportError } \cup { Response(st) : st \in Statuses }

brIdle == parts = <<>> /\ total_size = 0 /\ buffers = [tag |-> "None"]

bmIdle == bm_meta = [tag |-> "None"] /\ bm_result = [tag |-> "None"]

rbIdle == rbuf = with_capacity(0) /\ rbuf_call = [op |-> "none"]

\* Nothing outside the assembler, the retry helpers and download_replay is in
\* use; no arithmetic of these three overflows on the inputs drawn here, so
\* the build profile makes no difference to them
prIdle ==
    /\ chunks_dir = [tag |-> "None"] /\ config = [tag |-> "None"]
    /\ lp_pc = "idle" /\ index = 0 /\ stream_files = <<>> /\ lp_chunks = <<>>
    /\ progress = [tag |-> "None"] /\ snapshots = <<>> /\ current_offset = 0
    /\ lp_result = [tag |-> "None"] /\ output_file = [tag |-> "None"]

\* No chunk (its type is -1) and no length field computed
NoLengths == [chunk_type |-> -1]

lfIdle == lf_chunk = NoLengths /\ lf_fields = <<>>

\* A mutex nobody holds
Free == [t |-> "free"]

uiIdle ==
    /\ app = [pc |-> "idle"] /\ app_status = [complete |-> FALSE, error |-> FALSE]
    /\ app_progress = None
    /\ download_progress = None
    /\ locks = [status |-> Free, progress |-> Free, download_progress |-> Free]
    /\ workers = <<>> /\ downloaded_tx = <<>>
    /\ settings = [auto_download_enabled |-> FALSE] /\ replay_files = {}

extIdle == lfIdle /\ uiIdle

restIdle == overflow_checks = FALSE /\ bmIdle /\ rbIdle /\ prIdle

\* download_replay is not running
dlIdle ==
    /\ replay_id = <<>> /\ pc = "idle" /\ client_built = FALSE
    /\ requests = <<>> /\ result = [tag |-> "None"]
    /\ offset = 0 /\ find_all_response = None /\ start_download = None
    /\ meta = None /\ events = <<>> /\ events_pavlov = <<>>
    /\ download_chunks = <<>> /\ tasks = <<>> /\ collected = <<>>
    /\ svc_total = 0

InitRetry ==
    /\ extIdle
    /\ method \in {"GET", "POST"}
    /\ max_retries \in 0..MaxRetriesArg
    /\ call = NewCall
    /\ brIdle
    /\ dlIdle
    /\ restIdle

\* get_with_retry sends once more
GetSend ==
    /\ method = "GET"
    /\ call.ret = Pending
    /\ \E outcome \in RetryOutcomes : call' = GetStep(call, max_retries, outcome)
    /\ UNCHANGED <<brVars, rtVars, dlVars>>
    /\ UNCHANGED restVars

\* post_with_retry sends once more
PostSend ==
    /\ method = "POST"
    /\ call.ret = Pending
    /\ \E outcome \in RetryOutcomes : call' = PostStep(call, max_retries, outcome)
    /\ UNCHANGED <<brVars, rtVars, dlVars>>
    /\ UNCHANGED restVars

NextRetry == GetSend \/ PostSend

SpecRetry == InitRetry /\ [][NextRetry]_vars

----------------------------------------------------------------------------
\* Inputs of build_replay

\* Strings used for ids, groups and metadata: "a", "cp", an e-acute (2 UTF-8
\* bytes) followed by "1", and a euro sign (3 UTF-8 bytes)
StrA == <<97>>

StrCp == <<99, 112>>

StrE1 == <<233, 49>>

StrEuro == <<8364>>

\* The longest part list build_replay is given
MaxParts == 3

HeaderChunk(data) == Chunk(data, 0, None, None, None, None, None, None)

\* The chunks of the part lists: every type, set and unset optional fields,
\* empty and non-empty data, a negative time, an unknown type (4) and a type-2
\* chunk without id
ChunkInputs ==
    { HeaderChunk(<<1, 2, 3>>),
      HeaderChunk(<<>>),
      Chunk(<<9, 9>>, 1, Some(5), Some(6), None, None, None, None),
      Chunk(<<7>>, 1, None, Some(-2), None, None, None, Some(300)),
      Chunk(<<4>>, 2, Some(3), None, Some(StrA), Some(StrCp), None, None),
      Chunk(<<>>, 2, None, None, Some(StrE1), Some(StrA), Some(StrEuro), None),
      Chunk(<<5, 6>>, 3, Some(1), Some(2), Some(StrCp), Some(StrE1), Some(<<>>), None),
      Chunk(<<8>>, 2, None, None, None, Some(StrCp), None, None),
      Chunk(<<1>>, 4, Some(1), Some(1), Some(StrA), Some(StrA), None, None) }

PartInputs ==
    { MetaPart(<<170, 187>>), MetaPart(<<>>) } \cup { ChunkPart(c) : c \in ChunkInputs }

RECURSIVE SeqsUpTo(_, _)
\* The sequences over S of length at most n
SeqsUpTo(S, n) ==
    IF n = 0 THEN { <<>> }
    ELSE LET shorter == SeqsUpTo(S, n - 1)
         IN  shorter \cup { Append(q, x) : q \in shorter, x \in S }

\* A MetaData record with an RFC3339 created time of 1000 ms after the epoch
ExampleMeta ==
    [gameMode |-> <<83, 78, 68>>, friendlyName |-> <<100, 97, 116, 97>>,
     competitive |-> FALSE, workshop_mods |-> <<>>, live |-> FALSE,
     totalTime |-> 90, version |-> 0,
     created |-> [kind |-> "rfc3339", secs |-> 1, ms |-> 0]]

\* [meta(562 B), header(data = [1,2,3]), data chunk(data = [9,9], 5, 6)]
ExampleParts ==
    <<MetaPart(build_meta(ExampleMeta, FALSE).v),
      ChunkPart(HeaderChunk(<<1, 2, 3>>)),
      ChunkPart(Chunk(<<9, 9>>, 1, Some(5), Some(6), None, None, None, None))>>

PartLists == SeqsUpTo(PartInputs, MaxParts) \cup { ExampleParts }

----------------------------------------------------------------------------
\* The assembler alone: build_replay called on a part list

NotBuilt == [tag |-> "None"]

rtIdle == method = "none" /\ max_retries = 0 /\ call = NoCall

InitBuild ==
    /\ extIdle
    /\ parts \in PartLists
    /\ total_size = 0
    /\ buffers = NotBuilt
    /\ rtIdle
    /\ dlIdle
    /\ restIdle

\* One call of build_replay: both passes
BuildReplay ==
    /\ buffers = NotBuilt
    /\ total_size' = TotalSize(parts)
    /\ buffers' = build_replay(parts)
    /\ UNCHANGED <<parts, rtVars, call, dlVars>>
    /\ UNCHANGED restVars

NextBuild == BuildReplay

SpecBuild == InitBuild /\ [][NextBuild]_vars

----------------------------------------------------------------------------
\* The metadata encoder alone: build_meta called on a MetaData

\* The longest friendly name drawn, in characters
MaxNameLen == 300

\* A name of n letters x
LongName(n) == [i \in 1..n |-> 120]

\* Game modes: empty, "SND", and one character outside the basic plane (two
\* UTF-16 code units)
GameModes == { <<>>, <<83, 78, 68>>, <<128512>> }

\* With game mode "SND", no mods, casual and not live the display string has
\* 20 + n characters: 236 letters fill the 512 bytes before the terminator
\* exactly and 237 letters reach the end of the block; after 252 letters a
\* character outside the basic plane has its two code units at bytes 512..515
FriendlyNames == { <<100, 97, 116, 97>>, LongName(236), LongName(237),
                   LongName(MaxNameLen), LongName(252) \o <<128512>> }

\* created strings, by what they parse to: RFC3339 instants, integers
\* (1, 0, 860201606885 whose tick count is the last to fit an i64,
\* 860201606886, 10^12, 2^63 - 1 which is no valid timestamp), and text that
\* is neither
CreatedInputs ==
    { [kind |-> "rfc3339", secs |-> 1, ms |-> 0],
      [kind |-> "rfc3339", secs |-> 1614834367, ms |-> 89],
      [kind |-> "int", digits |-> <<1>>],
      [kind |-> "int", digits |-> <<>>],
      [kind |-> "int", digits |-> <<229, 222, 2, 72, 200>>],
      [kind |-> "int", digits |-> <<230, 222, 2, 72, 200>>],
      [kind |-> "int", digits |-> <<0, 16, 165, 212, 232>>],
      [kind |-> "int", digits |-> <<255, 255, 255, 255, 255, 255, 255, 127>>],
      [kind |-> "bad"] }

MetaInputs ==
    { [gameMode |-> g, friendlyName |-> f, competitive |-> c,
       workshop_mods |-> w, live |-> l, totalTime |-> t.totalTime,
       version |-> t.version, created |-> cr] :
        g \in GameModes, f \in FriendlyNames, c \in BOOLEAN,
        w \in { <<>>, <<49, 50>> }, l \in BOOLEAN,
        t \in { [totalTime |-> 90, version |-> 0],
                [totalTime |-> -1, version |-> 3] },
        cr \in CreatedInputs }

InitMeta ==
    /\ extIdle
    /\ bm_meta \in MetaInputs
    /\ overflow_checks \in BOOLEAN
    /\ bm_result = [tag |-> "None"]
    /\ brIdle /\ rtIdle /\ dlIdle /\ rbIdle /\ prIdle

\* One call of build_meta
BuildMeta ==
    /\ bm_result = [tag |-> "None"]
    /\ bm_result' = build_meta(bm_meta, overflow_checks)
    /\ UNCHANGED <<coreVars, envVars, bm_meta, rbVars, prVars>>

NextMeta == BuildMeta

SpecMeta == InitMeta /\ [][NextMeta]_vars

----------------------------------------------------------------------------
\* The bounded write buffer alone: a ReplayBuffer and calls of its methods

\* The largest capacity drawn
MaxCapacity == 9

Int32Inputs == { 0, 1, -2, 305419896 }

\* i64 values by their little-endian digits: 0 and 0x0807060504030201
Int64Inputs == { <<>>, <<1, 2, 3, 4, 5, 6, 7, 8>> }

ByteInputs == { <<>>, <<7>>, <<8, 9, 10>> }

\* What a call returned: Ok(()) or the error
Returned(r) ==
    IF r.ok THEN [ok |-> TRUE]
    ELSE IF r.err = "Invalid buffer size"
         THEN [ok |-> FALSE, err |-> r.err, expected |-> r.expected,
               wrote |-> r.wrote]
         ELSE [ok |-> FALSE, err |-> r.err]

InitBuffer ==
    /\ extIdle
    /\ \E capacity \in 0..MaxCapacity : rbuf = with_capacity(capacity)
    /\ rbuf_call = [op |-> "none"]
    /\ overflow_checks = FALSE
    /\ brIdle /\ rtIdle /\ dlIdle /\ bmIdle /\ prIdle

WriteInt32 ==
    \E value \in Int32Inputs :
        LET r == write_int32(rbuf, value)
        IN  /\ rbuf' = r.rb
            /\ rbuf_call' = [op |-> "write_int32", value |-> value,
                             before |-> rbuf, ret |-> Returned(r)]
            /\ UNCHANGED <<coreVars, envVars, bmVars, prVars>>

WriteInt64 ==
    \E value \in Int64Inputs :
        LET r == write_int64(rbuf, value)
        IN  /\ rbuf' = r.rb
            /\ rbuf_call' = [op |-> "write_int64", value |-> value,
                             before |-> rbuf, ret |-> Returned(r)]
            /\ UNCHANGED <<coreVars, envVars, bmVars, prVars>>

WriteBytes ==
    \E bytes \in ByteInputs :
        LET r == write_bytes(rbuf, bytes)
        IN  /\ rbuf' = r.rb
            /\ rbuf_call' = [op |-> "write_bytes", value |-> bytes,
                             before |-> rbuf, ret |-> Returned(r)]
            /\ UNCHANGED <<coreVars, envVars, bmVars, prVars>>

Validate ==
    \E expected \in 0..(MaxCapacity + 1) :
        LET r == validate(rbuf, expected)
        IN  /\ rbuf' = r.rb
            /\ rbuf_call' = [op |-> "validate", value |-> expected,
                             before |-> rbuf, ret |-> Returned(r)]
            /\ UNCHANGED <<coreVars, envVars, bmVars, prVars>>

NextBuffer == WriteInt32 \/ WriteInt64 \/ WriteBytes \/ Validate

SpecBuffer == InitBuffer /\ [][NextBuffer]_vars

----------------------------------------------------------------------------
\* tools/replay_processor.rs: download_replay

\* let max_retries = 5
DownloadMaxRetries == 5

\* char::is_alphanumeric on the scalar values used in replay ids: the ASCII
\* digits and letters, e-acute and an Arabic-Indic digit are alphanumeric
Alphanumeric == (48..57) \cup (65..90) \cup (97..122) \cup {233, 1635}

\* replay_id.chars().all(|c| c.is_alphanumeric())
IsValidReplayIdMutAny(id) == \E i \in 1..Len(id) : id[i] \in Alphanumeric

IsValidReplayId(id) == \A i \in 1..Len(id) : id[i] \in Alphanumeric

\* `offset >= find_all.total as usize`: a negative i32 total casts to a usize
\* of at least 2^64 - 2^31, which no offset reaches
OffsetReachesTotalMutStrict(off, total) == total >= 0 /\ off > total

OffsetReachesTotal(off, total) == total >= 0 /\ off >= total

\* The end of one pass of the discovery loop, after the page was searched:
\* break when the offset reached the total, else move to the next page
\* The loop step advancing by two pages
FindLoopStepMutSkipPage(off, total) ==
    IF OffsetReachesTotal(off, total) THEN [brk |-> TRUE, offset |-> off]
    ELSE [brk |-> FALSE, offset |-> off + 200]

FindLoopStep(off, total) ==
    IF OffsetReachesTotal(off, total) THEN [brk |-> TRUE, offset |-> off]
    ELSE [brk |-> FALSE, offset |-> off + 100]

\* start_download["state"] != "Recorded" is false: the field is the string
\* "Recorded"
StateIsRecordedMutMissing(sd) == ~sd.state.some \/ sd.state.v = "Recorded"

StateIsRecorded(sd) == sd.state.some /\ sd.state.v = "Recorded"

\* start_download["numChunks"].as_i64().unwrap_or(0) as usize
NumChunks(sd) == UnwrapOr(sd.numChunks, 0)

RECURSIVE InsertByKey(_, _)
\* Insert a pair after the pairs of the sorted sequence whose key is not larger
InsertByKey(sorted, pair) ==
    IF sorted = <<>> THEN <<pair>>
    ELSE IF pair[1] < Head(sorted)[1] THEN <<pair>> \o sorted
    ELSE <<Head(sorted)>> \o InsertByKey(Tail(sorted), pair)

RECURSIVE SortedPairs(_)
SortedPairs(pairs) ==
    IF pairs = <<>> THEN <<>>
    ELSE InsertByKey(SortedPairs(SubSeq(pairs, 1, Len(pairs) - 1)), pairs[Len(pairs)])

\* stream_chunks.sort_by_key(|(i, _)| *i): a stable sort by index
SortByKeyMutNoSort(pairs) == pairs

SortByKey(pairs) == SortedPairs(pairs)

\* The event loops of lines 333-361: one chunk of the given type for each event
\* whose data.data is present, in the order of the events
RECURSIVE EventChunks(_, _)
EventChunks(evs, chunk_type) ==
    IF evs = <<>> THEN <<>>
    ELSE LET event == Head(evs)
             data == IF event.data.some THEN event.data.v.data ELSE None
         IN  (IF data.some
              THEN <<Chunk(data.v, chunk_type, event.time1, event.time2, event.id,
                           event.group, event.meta, None)>>
              ELSE <<>>) \o EventChunks(Tail(evs), chunk_type)

\* download_chunks after the stream chunks and the two event groups were added
AssembleChunksMutPavlovFirst(chunks, sorted, evs, evs_pavlov) ==
    chunks \o [k \in 1..Len(sorted) |-> sorted[k][2]]
        \o EventChunks(evs_pavlov, 3) \o EventChunks(evs, 2)

AssembleChunks(chunks, sorted, evs, evs_pavlov) ==
    chunks \o [k \in 1..Len(sorted) |-> sorted[k][2]]
        \o EventChunks(evs, 2) \o EventChunks(evs_pavlov, 3)

----------------------------------------------------------------------------
\* The service download_replay talks to

\* The most stream chunks a startDownloading response announces
MaxChunks == 2

\* The most find calls followed (the loop has no bound of its own when the
\* service reports a negative total)
MaxFinds == 4

\* The replay ids download_replay is called with: "a7" followed by e-acute,
\* and ids with a slash, dots, a space and a dash
ReplayIds ==
    { <<97, 55, 233>>, <<97, 47>>, <<46, 46, 47>>, <<32>>, <<97, 45, 55>> }

\* The totals the find endpoint reports
FindTotals == {-1, 0, 100, 101}

\* What send() gives download_replay
DlOutcomes == { TransportError, Response(200), Response(404) }

\* A 2xx response whose body does not parse, or cannot be read
BadBody == [bad |-> TRUE]

\* The page of a find response: whether the replay is listed in it
FindBodies == { [bad |-> FALSE, has_id |-> b] : b \in BOOLEAN }

\* startDownloading responses: the state field ("Recorded", another string, or
\* missing) and numChunks (missing or a count)
StartBodies ==
    { [bad |-> FALSE, state |-> st, numChunks |-> n] :
        st \in {Some("Recorded"), Some("Recording"), None},
        n \in {None} \cup { Some(k) : k \in 0..MaxChunks } }

\* Metadata responses: one whose created time parses, one whose does not
MetaBodies ==
    { ExampleMeta,
      [ExampleMeta EXCEPT !.created = [kind |-> "bad"], !.live = TRUE] }

Event(id, group, md, time1, time2, data) ==
    [id |-> id, group |-> group, meta |-> md, time1 |-> time1, time2 |-> time2,
     data |-> data]

\* Event.data: {type, data}
EventData(typ, data) == Some([typ |-> typ, data |-> data])

EvA == Event(Some(StrA), Some(StrCp), None, Some(3), None,
             EventData(Some("Buffer"), Some(<<4>>)))

EvB == Event(Some(StrE1), Some(StrCp), Some(StrEuro), None, Some(7),
             EventData(Some("Buffer"), Some(<<5, 6>>)))

\* An event without payload
EvNoData == Event(Some(StrA), Some(StrCp), None, None, None, None)

\* An event with a payload and no id
EvNoId == Event(None, Some(StrCp), None, None, None,
                EventData(Some("Buffer"), Some(<<8>>)))

\* An event whose payload is not tagged "Buffer"
EvOther == Event(Some(StrCp), Some(StrA), None, Some(1), Some(2),
                 EventData(Some("Json"), Some(<<9>>)))

\* An event whose payload has bytes and no type tag
EvUntagged == Event(Some(StrA), Some(StrA), None, None, None,
                    EventData(None, Some(<<7, 7>>)))

\* The event lists of the checkpoint group and of the Pavlov group
CheckpointBodies == { <<>>, <<EvB, EvNoData, EvA>>, <<EvNoId>> }

PavlovBodies == { <<>>, <<EvA, EvOther>> }

HeaderData == <<1, 2, 3>>

\* The stream.{i} response: its body, and mtime1/mtime2 headers that parse for
\* even i and are missing or unparseable for odd i
StreamChunk(i) ==
    Chunk(<<10 + i, 20 + i>>, 1,
          IF i % 2 = 0 THEN Some(100 + i) ELSE None,
          IF i % 2 = 0 THEN Some(200 + i) ELSE None,
          None, None, None, None)

----------------------------------------------------------------------------
\* download_replay as a state machine: one action per send() and what follows
\* it up to the next send()

Init ==
    /\ extIdle
    /\ replay_id \in ReplayIds
    /\ svc_total \in FindTotals
    /\ pc = "validate"
    /\ client_built = FALSE
    /\ requests = <<>>
    /\ result = [tag |-> "None"]
    /\ offset = 0 /\ find_all_response = None /\ start_download = None
    /\ meta = None /\ events = <<>> /\ events_pavlov = <<>>
    /\ download_chunks = <<>> /\ tasks = <<>> /\ collected = <<>>
    /\ call = NoCall
    /\ method = "none" /\ max_retries = 0
    /\ parts = <<>> /\ total_size = 0 /\ buffers = [tag |-> "None"]
    /\ restIdle

\* An error made from a message
Msg(text) == [kind |-> "message", text |-> text]

Err(e) == [tag |-> "Err", err |-> e]

\* The log of helper calls: a call is logged at its first send
Logged(req, arg) ==
    IF call.sends = 0 THEN Append(requests, [req |-> req, arg |-> arg])
    ELSE requests

\* The helper sleeps and will send again
Retry(c, req, arg) ==
    /\ call' = c
    /\ requests' = Logged(req, arg)
    /\ UNCHANGED <<brVars, rtVars, replay_id, pc, client_built, result, dlLocals,
                   tasks, collected, svc_total>>

\* A sequential step fails: download_replay returns the error
Fail(c, req, arg, e) ==
    /\ call' = EndCall(c)
    /\ requests' = Logged(req, arg)
    /\ pc' = "done"
    /\ result' = Err(e)
    /\ UNCHANGED <<brVars, rtVars, replay_id, client_built, dlLocals, tasks,
                   collected, svc_total>>

\* Lines 229-231: the id is rejected
RejectId ==
    /\ pc = "validate"
    /\ ~IsValidReplayId(replay_id)
    /\ pc' = "done"
    /\ result' = Err(Msg("Invalid replay id"))
    /\ UNCHANGED <<brVars, rtVars, call, replay_id, client_built, requests,
                   dlLocals, tasks, collected, svc_total>>
    /\ UNCHANGED restVars

\* Lines 234-241: the id is accepted and the client is built, or build() fails
BuildClient ==
    /\ pc = "validate"
    /\ IsValidReplayId(replay_id)
    /\ \E built \in BOOLEAN :
        IF built
        THEN /\ client_built' = TRUE
             /\ pc' = "find"
             /\ call' = NewCall
             /\ UNCHANGED result
        ELSE /\ pc' = "done"
             /\ result' = Err(Msg("client build failed"))
             /\ UNCHANGED <<client_built, call>>
    /\ UNCHANGED <<brVars, rtVars, replay_id, requests, dlLocals, tasks,
                   collected, svc_total>>
    /\ UNCHANGED restVars

NumFinds == Cardinality({ k \in 1..Len(requests) : requests[k].req = "find" })

\* Lines 245-262: one send of a find request, and the rest of the loop pass
FindSend ==
    /\ pc = "find"
    /\ call.sends > 0 \/ NumFinds < MaxFinds
    /\ \E outcome \in DlOutcomes :
        LET c == GetStep(call, DownloadMaxRetries, outcome)
        IN  CASE c.ret = Pending -> Retry(c, "find", offset)
              [] c.ret.tag = "Err" -> Fail(c, "find", offset, c.ret)
              [] OTHER ->
                \E body \in FindBodies \cup {BadBody} :
                    IF body.bad THEN Fail(c, "find", offset, Msg("find body does not parse"))
                    ELSE LET found == IF body.has_id THEN Some(replay_id) ELSE None
                             step == FindLoopStep(offset, svc_total)
                         IN  IF ~found.some /\ step.brk
                             THEN Fail(c, "find", offset, Msg("Recording not available"))
                             ELSE /\ find_all_response' = found
                                  /\ offset' = step.offset
                                  /\ pc' = IF found.some THEN "start" ELSE "find"
                                  /\ call' = NewCall
                                  /\ requests' = Logged("find", offset)
                                  /\ UNCHANGED <<brVars, rtVars, replay_id,
                                        client_built, result, start_download, meta,
                                        events, events_pavlov, download_chunks,
                                        tasks, collected, svc_total>>
    /\ UNCHANGED restVars

\* Lines 264-271: one send of the startDownloading request, and the state check
StartSend ==
    /\ pc = "start"
    /\ \E outcome \in DlOutcomes :
        LET c == PostStep(call, DownloadMaxRetries, outcome)
        IN  CASE c.ret = Pending -> Retry(c, "start", 0)
              [] c.ret.tag = "Err" -> Fail(c, "start", 0, c.ret)
              [] OTHER ->
                \E body \in StartBodies \cup {BadBody} :
                    IF body.bad THEN Fail(c, "start", 0, Msg("start body does not parse"))
                    ELSE /\ start_download' = Some(body)
                         /\ requests' = Logged("start", 0)
                         /\ IF ~StateIsRecorded(body)
                            THEN /\ pc' = "done"
                                 /\ call' = EndCall(c)
                                 /\ result' = Err(Msg("Recording must be finished before download"))
                            ELSE /\ pc' = "meta"
                                 /\ call' = NewCall
                                 /\ UNCHANGED result
                         /\ UNCHANGED <<brVars, rtVars, replay_id, client_built,
                               offset, find_all_response, meta, events,
                               events_pavlov, download_chunks, tasks, collected,
                               svc_total>>
    /\ UNCHANGED restVars

\* The meta request followed at once by the Pavlov event request
MetaSendMutSkipsCheckpoint ==
    /\ pc = "meta"
    /\ \E outcome \in DlOutcomes :
        LET c == GetStep(call, DownloadMaxRetries, outcome)
        IN  CASE c.ret = Pending -> Retry(c, "meta", 0)
              [] c.ret.tag = "Err" -> Fail(c, "meta", 0, c.ret)
              [] OTHER ->
                \E body \in { Some(b) : b \in MetaBodies } \cup {None} :
                    IF ~body.some THEN Fail(c, "meta", 0, Msg("meta body does not parse"))
                    ELSE /\ meta' = body
                         /\ requests' = Logged("meta", 0)
                         /\ pc' = "events_pavlov"
                         /\ call' = NewCall
                         /\ UNCHANGED <<brVars, rtVars, replay_id, client_built,
                               result, offset, find_all_response, start_download,
                               events, events_pavlov, download_chunks, tasks,
                               collected, svc_total>>
    /\ UNCHANGED restVars

\* Line 273: one send of the meta request
MetaSend ==
    /\ pc = "meta"
    /\ \E outcome \in DlOutcomes :
        LET c == GetStep(call, DownloadMaxRetries, outcome)
        IN  CASE c.ret = Pending -> Retry(c, "meta", 0)
              [] c.ret.tag = "Err" -> Fail(c, "meta", 0, c.ret)
              [] OTHER ->
                \E body \in { Some(b) : b \in MetaBodies } \cup {None} :
                    IF ~body.some THEN Fail(c, "meta", 0, Msg("meta body does not parse"))
                    ELSE /\ meta' = body
                         /\ requests' = Logged("meta", 0)
                         /\ pc' = "events"
                         /\ call' = NewCall
                         /\ UNCHANGED <<brVars, rtVars, replay_id, client_built,
                               result, offset, find_all_response, start_download,
                               events, events_pavlov, download_chunks, tasks,
                               collected, svc_total>>
    /\ UNCHANGED restVars

\* Line 276: one send of the checkpoint event request
EventsSend ==
    /\ pc = "events"
    /\ \E outcome \in DlOutcomes :
        LET c == GetStep(call, DownloadMaxRetries, outcome)
        IN  CASE c.ret = Pending -> Retry(c, "events", 0)
              [] c.ret.tag = "Err" -> Fail(c, "events", 0, c.ret)
              [] OTHER ->
                \E body \in { Some(b) : b \in CheckpointBodies } \cup {None} :
                    IF ~body.some THEN Fail(c, "events", 0, Msg("events body does not parse"))
                    ELSE /\ events' = body.v
                         /\ requests' = Logged("events", 0)
                         /\ pc' = "events_pavlov"
                         /\ call' = NewCall
                         /\ UNCHANGED <<brVars, rtVars, replay_id, client_built,
                               result, offset, find_all_response, start_download,
                               meta, events_pavlov, download_chunks, tasks,
                               collected, svc_total>>
    /\ UNCHANGED restVars

\* Line 279: one send of the Pavlov event request
PavlovSend ==
    /\ pc = "events_pavlov"
    /\ \E outcome \in DlOutcomes :
        LET c == GetStep(call, DownloadMaxRetries, outcome)
        IN  CASE c.ret = Pending -> Retry(c, "events_pavlov", 0)
              [] c.ret.tag = "Err" -> Fail(c, "events_pavlov", 0, c.ret)
              [] OTHER ->
                \E body \in { Some(b) : b \in PavlovBodies } \cup {None} :
                    IF ~body.some
                    THEN Fail(c, "events_pavlov", 0, Msg("events body does not parse"))
                    ELSE /\ events_pavlov' = body.v
                         /\ requests' = Logged("events_pavlov", 0)
                         /\ pc' = "header"
                         /\ call' = NewCall
                         /\ UNCHANGED <<brVars, rtVars, replay_id, client_built,
                               result, offset, find_all_response, start_download,
                               meta, events, download_chunks, tasks, collected,
                               svc_total>>
    /\ UNCHANGED restVars

\* A stream fetch that has not sent yet
NewTask == [st |-> "run", call |-> NewCall, chunk |-> None]

\* Lines 282-300: one send of the header request; then the header chunk is
\* pushed and the stream fetches are handed to the pool
HeaderSend ==
    /\ pc = "header"
    /\ \E outcome \in DlOutcomes :
        LET c == GetStep(call, DownloadMaxRetries, outcome)
        IN  CASE c.ret = Pending -> Retry(c, "header", 0)
              [] c.ret.tag = "Err" -> Fail(c, "header", 0, c.ret)
              [] OTHER ->
                \E readable \in BOOLEAN :
                    IF ~readable THEN Fail(c, "header", 0, Msg("header body cannot be read"))
                    ELSE LET num_chunks == NumChunks(start_download.v)
                         IN  /\ download_chunks' = <<HeaderChunk(HeaderData)>>
                             /\ tasks' = [i \in 0..(num_chunks - 1) |-> NewTask]
                             /\ requests' = Logged("header", 0)
                             /\ pc' = "streams"
                             /\ call' = NoCall
                             /\ UNCHANGED <<brVars, rtVars, replay_id, client_built,
                                   result, offset, find_all_response, start_download,
                                   meta, events, events_pavlov, collected, svc_total>>
    /\ UNCHANGED restVars

\* Lines 302-326: one send of the fetch of stream.{i}; a fetch that succeeds
\* hands (i, chunk) to the collection
StreamSend(i) ==
    /\ pc = "streams"
    /\ tasks[i].st = "run"
    /\ \E outcome \in DlOutcomes :
        LET c == GetStep(tasks[i].call, DownloadMaxRetries, outcome)
        IN  CASE c.ret = Pending ->
                    /\ tasks' = [tasks EXCEPT ![i].call = c]
                    /\ UNCHANGED collected
              [] c.ret.tag = "Err" ->
                    /\ tasks' = [tasks EXCEPT ![i].call = EndCall(c), ![i].st = "err"]
                    /\ UNCHANGED collected
              [] OTHER ->
                \E readable \in BOOLEAN :
                    IF readable
                    THEN /\ tasks' = [tasks EXCEPT ![i].call = EndCall(c), ![i].st = "ok",
                                                   ![i].chunk = Some(StreamChunk(i))]
                         /\ collected' = Append(collected, i)
                    ELSE /\ tasks' = [tasks EXCEPT ![i].call = EndCall(c), ![i].st = "err"]
                         /\ UNCHANGED collected
    /\ UNCHANGED <<brVars, rtVars, call, replay_id, pc, client_built, requests,
                   result, dlLocals, svc_total>>
    /\ UNCHANGED restVars

\* Line 327: collecting into a Result stops early: once a fetch has failed, a
\* fetch that has not started may never run
StreamSkip(i) ==
    /\ pc = "streams"
    /\ tasks[i].st = "run"
    /\ tasks[i].call.sends = 0
    /\ \E j \in DOMAIN tasks : tasks[j].st = "err"
    /\ tasks' = [tasks EXCEPT ![i].st = "skip"]
    /\ UNCHANGED <<brVars, rtVars, call, replay_id, pc, client_built, requests,
                   result, dlLocals, collected, svc_total>>
    /\ UNCHANGED restVars

\* The collect that ignores the fetches that failed and goes on with the rest
StreamJoinMutPartial ==
    /\ pc = "streams"
    /\ \A i \in DOMAIN tasks : tasks[i].st # "run"
    /\ pc' = "done"
    /\ IF FALSE
       THEN /\ result' = Err(Msg("stream fetch failed"))
            /\ UNCHANGED <<brVars, download_chunks>>
       ELSE LET stream_chunks ==
                    [k \in 1..Len(collected) |->
                        <<collected[k], tasks[collected[k]].chunk.v>>]
                chunks == AssembleChunks(download_chunks, SortByKey(stream_chunks),
                                         events, events_pavlov)
                meta_buffer == build_meta(meta.v, overflow_checks)
                ps == <<MetaPart(meta_buffer.v)>>
                        \o [k \in 1..Len(chunks) |-> ChunkPart(chunks[k])]
            IN  /\ download_chunks' = chunks
                /\ IF meta_buffer.tag # "Ok"
                   THEN /\ result' = [tag |-> meta_buffer.tag,
                                       err |-> Msg(meta_buffer.err)]
                        /\ UNCHANGED brVars
                   ELSE /\ parts' = ps
                        /\ total_size' = TotalSize(ps)
                        /\ buffers' = build_replay(ps)
                        /\ result' = [tag |-> buffers'.tag]
    /\ UNCHANGED <<rtVars, call, replay_id, client_built, requests, offset,
                   find_all_response, start_download, meta, events, events_pavlov,
                   tasks, collected, svc_total>>
    /\ UNCHANGED restVars

\* Lines 327-370: every fetch has ended.  One failed fetch makes the collect an
\* error; else the stream chunks (kept here in completion order, the least the
\* collection promises) are sorted and appended, the event chunks are added,
\* the meta record is built and the container is assembled
StreamJoin ==
    /\ pc = "streams"
    /\ \A i \in DOMAIN tasks : tasks[i].st # "run"
    /\ pc' = "done"
    /\ IF \E j \in DOMAIN tasks : tasks[j].st = "err"
       THEN /\ result' = Err(Msg("stream fetch failed"))
            /\ UNCHANGED <<brVars, download_chunks>>
       ELSE LET stream_chunks ==
                    [k \in 1..Len(collected) |->
                        <<collected[k], tasks[collected[k]].chunk.v>>]
                chunks == AssembleChunks(download_chunks, SortByKey(stream_chunks),
                                         events, events_pavlov)
                meta_buffer == build_meta(meta.v, overflow_checks)
                ps == <<MetaPart(meta_buffer.v)>>
                        \o [k \in 1..Len(chunks) |-> ChunkPart(chunks[k])]
            IN  /\ download_chunks' = chunks
                /\ IF meta_buffer.tag # "Ok"
                   THEN /\ result' = [tag |-> meta_buffer.tag,
                                       err |-> Msg(meta_buffer.err)]
                        /\ UNCHANGED brVars
                   ELSE /\ parts' = ps
                        /\ total_size' = TotalSize(ps)
                        /\ buffers' = build_replay(ps)
                        /\ result' = [tag |-> buffers'.tag]
    /\ UNCHANGED <<rtVars, call, replay_id, client_built, requests, offset,
                   find_all_response, start_download, meta, events, events_pavlov,
                   tasks, collected, svc_total>>
    /\ UNCHANGED restVars

Next ==
    \/ RejectId
    \/ BuildClient
    \/ FindSend
    \/ StartSend
    \/ MetaSend
    \/ EventsSend
    \/ PavlovSend
    \/ HeaderSend
    \/ \E i \in DOMAIN tasks : StreamSend(i)
    \/ \E i \in DOMAIN tasks : StreamSkip(i)
    \/ StreamJoin

Spec == Init /\ [][Next]_vars

----------------------------------------------------------------------------
\* tools/replay_processor.rs: process_replay, the pipeline over local files

\* usize::MAX, the default of the three counts of Config, kept as a count
\* above every length drawn here
USIZE_MAX == 1000000

\* The value of a string of decimal digits, and its negation
RECURSIVE DigitsValue(_)
DigitsValue(s) ==
    IF s = <<>> THEN 0
    ELSE DigitsValue(SubSeq(s, 1, Len(s) - 1)) * 10 + (s[Len(s)] - 48)

RECURSIVE NegValue(_)
NegValue(s) ==
    IF s = <<>> THEN 0
    ELSE NegValue(SubSeq(s, 1, Len(s) - 1)) * 10 - (s[Len(s)] - 48)

\* A digit string without its leading zeros
StripZeros(s) ==
    LET nz == { k \in 1..Len(s) : s[k] # 48 }
    IN  IF nz = {} THEN <<>>
        ELSE SubSeq(s, CHOOSE k \in nz : \A j \in nz : k <= j, Len(s))

\* a <= b for digit strings of the same length
LexLeq(a, b) ==
    \/ a = b
    \/ \E i \in 1..Len(a) : a[i] < b[i] /\ \A j \in 1..(i - 1) : a[j] = b[j]

AllDigits(s) == s # <<>> /\ \A k \in 1..Len(s) : s[k] \in 48..57

\* str::parse::<i32>: an optional sign, then digits, within the i32 range
ParseI32(s) ==
    LET neg == s # <<>> /\ s[1] = 45
        body == IF s # <<>> /\ s[1] \in {43, 45} THEN Tail(s) ELSE s
        z == StripZeros(body)
        limit == IF neg THEN <<50, 49, 52, 55, 52, 56, 51, 54, 52, 56>>
                 ELSE <<50, 49, 52, 55, 52, 56, 51, 54, 52, 55>>
    IN  IF ~AllDigits(body) THEN None
        ELSE IF Len(z) > 10 \/ (Len(z) = 10 /\ ~LexLeq(z, limit)) THEN None
        ELSE Some(IF neg THEN NegValue(z) ELSE DigitsValue(z))

\* s.parse::<usize>().map(|n| n == chunk_number).unwrap_or(false), for a
\* chunk_number below 10^9: an optional plus sign, then digits
ParseUsizeIs(s, chunk_number) ==
    LET body == IF s # <<>> /\ s[1] = 43 THEN Tail(s) ELSE s
        z == StripZeros(body)
    IN  AllDigits(body) /\ Len(z) <= 9 /\ DigitsValue(z) = chunk_number

\* A file "stream.<name>" of the chunk directory
StreamFile(name, data, readable) ==
    [name |-> name, data |-> data, readable |-> readable]

\* file_name.split('.').nth(1): what stands between the first dot and the next
SecondSegment(name) ==
    LET dots == { k \in 1..Len(name) : name[k] = 46 }
    IN  IF dots = {} THEN name
        ELSE SubSeq(name, 1, (CHOOSE k \in dots : \A j \in dots : k <= j) - 1)

\* The sort key of a stream file: its number, or 0
StreamKey(file) == UnwrapOr(ParseI32(SecondSegment(file.name)), 0)

\* The stream files left in the order read_dir listed them
SortStreamFilesMutListingOrder(files) == files

\* stream_files.sort_by_key(..): a stable sort by the key
SortStreamFiles(files) ==
    LET sorted == SortedPairs([k \in 1..Len(files) |-> <<StreamKey(files[k]), files[k]>>])
    IN  [k \in 1..Len(files) |-> sorted[k][2]]

ProgressUpdate(current, max) == [current |-> current, max |-> max]

Min(a, b) == IF a < b THEN a ELSE b

\* The last entry whose numchunks parses to the chunk number
TimingEntryMutLast(timing_data, chunk_number) ==
    LET hits == { k \in 1..Len(timing_data) :
                    ParseUsizeIs(timing_data[k].numchunks, chunk_number) }
    IN  IF hits = {} THEN None
        ELSE Some(timing_data[CHOOSE k \in hits : \A j \in hits : k >= j])

\* The timing entry of a chunk number: the first whose numchunks parses to it
TimingEntry(timing_data, chunk_number) ==
    LET hits == { k \in 1..Len(timing_data) :
                    ParseUsizeIs(timing_data[k].numchunks, chunk_number) }
    IN  IF hits = {} THEN None
        ELSE Some(timing_data[CHOOSE k \in hits : \A j \in hits : k <= j])

\* Lines 487-507: the chunk of the stream file at position idx
LocalStreamChunk(timing_data, idx, file_data) ==
    LET timing_entry == TimingEntry(timing_data, idx + 1)
        time1 == IF timing_entry.some
                 THEN UnwrapOr(ParseI32(timing_entry.v.mtime1), 0) ELSE 0
        time2 == IF timing_entry.some
                 THEN UnwrapOr(ParseI32(timing_entry.v.mtime2), 0) ELSE 0
    IN  Chunk(file_data, 1, Some(time1), Some(time2), None, None, None, None)

\* Option::or(Some(0))
OrSomeZero(o) == IF o.some THEN o ELSE Some(0)

\* Lines 518-522: the payload bytes when the payload is tagged "Buffer"
EventBuffer(event) ==
    IF /\ event.data.some
       /\ event.data.v.typ.some
       /\ event.data.v.typ.v = "Buffer"
       /\ event.data.v.data.some
    THEN event.data.v.data.v
    ELSE <<>>

\* add_event_chunk without the check of id and group
add_event_chunkMutNoIdCheck(st, event, chunk_type, idx, max_count) ==
    IF idx >= max_count THEN st
    ELSE LET event_buffer == EventBuffer(event)
         IN  [chunks |-> Append(st.chunks,
                            Chunk(event_buffer, chunk_type, OrSomeZero(event.time1),
                                  OrSomeZero(event.time2), event.id, event.group,
                                  event.meta, None)),
              current_offset |-> st.current_offset + Len(event_buffer)]

\* Lines 514-535: the closure add_event_chunk, on download_chunks and
\* current_offset
add_event_chunk(st, event, chunk_type, idx, max_count) ==
    IF idx >= max_count \/ ~event.id.some \/ ~event.group.some THEN st
    ELSE LET event_buffer == EventBuffer(event)
         IN  [chunks |-> Append(st.chunks,
                            Chunk(event_buffer, chunk_type, OrSomeZero(event.time1),
                                  OrSomeZero(event.time2), event.id, event.group,
                                  event.meta, None)),
              current_offset |-> st.current_offset + Len(event_buffer)]

\* Config::default(), and config.unwrap_or_default()
DefaultConfig ==
    [data_count |-> USIZE_MAX, event_count |-> USIZE_MAX,
     checkpoint_count |-> USIZE_MAX]

Cfg == UnwrapOr(config, DefaultConfig)

\* The locals read from metadata.json and timing.json
MetadataFile(md, evs_pavlov, evs) ==
    [meta |-> md, events_pavlov |-> evs_pavlov, events |-> evs]

LocalMeta == chunks_dir.metadata.v.meta

PavlovEvents == UnwrapOr(chunks_dir.metadata.v.events_pavlov, <<>>)

CheckpointEvents == UnwrapOr(chunks_dir.metadata.v.events, <<>>)

TimingData == chunks_dir.timing.v

\* meta.friendly_name.replace([' ', '/', '\\', ':'], "-")
SanitizedName(name) ==
    [k \in 1..Len(name) |-> IF name[k] \in {32, 47, 92, 58} THEN 45 ELSE name[k]]

\* The chunk directories drawn.  A JSON file is missing, does not parse, or
\* holds a value; replay.header is there or not; the stream files come in the
\* order read_dir lists them.
Missing == [state |-> "missing"]

Invalid == [state |-> "invalid"]

Parsed(v) == [state |-> "ok", v |-> v]

BadCreatedMeta == [ExampleMeta EXCEPT !.created = [kind |-> "bad"]]

MetadataInputs ==
    { Missing, Invalid, Parsed(MetadataFile(None, None, None)) }
        \cup { Parsed(MetadataFile(Some(md), evs_pavlov, evs)) :
                md \in { ExampleMeta, BadCreatedMeta },
                evs_pavlov \in { None, Some(<<EvA, EvOther, EvNoId>>) },
                evs \in { None, Some(<<EvB, EvNoData, EvA>>), Some(<<EvNoId>>),
                          Some(<<EvUntagged>>) } }

Timing(numchunks, mtime1, mtime2) ==
    [numchunks |-> numchunks, mtime1 |-> mtime1, mtime2 |-> mtime2]

\* Entries for chunk 2 (mtime1 "x" does not parse), chunk 1 twice; one
\* whose numchunks is no number; and numchunks "-1", "02" (mtime1 one above
\* the i32 range, mtime2 the largest i32) and "+1" (mtime2 empty)
TimingInputs ==
    { Missing, Parsed(<<>>),
      Parsed(<<Timing(<<50>>, <<120>>, <<45, 55>>), Timing(<<49>>, <<53>>, <<54>>),
               Timing(<<49>>, <<57>>, <<57>>)>>),
      Parsed(<<Timing(<<111, 110, 101>>, <<49>>, <<49>>)>>),
      Parsed(<<Timing(<<45, 49>>, <<49>>, <<49>>),
               Timing(<<48, 50>>, <<50, 49, 52, 55, 52, 56, 51, 54, 52, 56>>,
                      <<50, 49, 52, 55, 52, 56, 51, 54, 52, 55>>),
               Timing(<<43, 49>>, <<43, 51>>, <<>>)>>) }

\* stream.0, stream.1, stream.2 (empty), stream.10, stream.x, stream.1.bak
\* and a stream.3 that cannot be read
F0 == StreamFile(<<48>>, <<10>>, TRUE)

F1 == StreamFile(<<49>>, <<11, 11>>, TRUE)

F2 == StreamFile(<<50>>, <<>>, TRUE)

F10 == StreamFile(<<49, 48>>, <<12>>, TRUE)

Fx == StreamFile(<<120>>, <<13>>, TRUE)

Fbak == StreamFile(<<49, 46, 98, 97, 107>>, <<14>>, TRUE)

F3 == StreamFile(<<51>>, <<15>>, FALSE)

StreamListings ==
    { <<>>, <<F1, F0>>, <<F10, F2, F1, F0>>, <<F1, Fx, Fbak>>, <<F3, F0>> }

DirInputs ==
    { [metadata |-> md, timing |-> t, header |-> h, streams |-> fs] :
        md \in MetadataInputs, t \in TimingInputs,
        h \in { None, Some(HeaderData) }, fs \in StreamListings }

ConfigInputs ==
    { None,
      Some([data_count |-> 1, event_count |-> 2, checkpoint_count |-> 0]),
      Some([data_count |-> 3, event_count |-> 0, checkpoint_count |-> 1]) }

InitLocal ==
    /\ extIdle
    /\ chunks_dir \in DirInputs
    /\ config \in ConfigInputs
    /\ lp_pc = "start"
    /\ index = 0 /\ stream_files = <<>> /\ lp_chunks = <<>>
    /\ progress = [tag |-> "None"] /\ snapshots = <<>> /\ current_offset = 0
    /\ lp_result = [tag |-> "None"] /\ output_file = [tag |-> "None"]
    /\ overflow_checks = FALSE
    /\ brIdle /\ rtIdle /\ dlIdle /\ bmIdle /\ rbIdle

\* process_replay returns an error
LpFail(e) ==
    /\ lp_pc' = "done"
    /\ lp_result' = Err(Msg(e))

\* Lines 399-475: the files are loaded, the meta record is built, the stream
\* files are listed and sorted, and the first two snapshots are passed
LpLoad ==
    /\ lp_pc = "start"
    /\ IF chunks_dir.metadata.state = "missing" THEN LpFail("Metadata file not found")
       ELSE IF chunks_dir.metadata.state = "invalid" THEN LpFail("Metadata does not parse")
       ELSE IF chunks_dir.timing.state = "missing" THEN LpFail("Timing Data file not found")
       ELSE IF chunks_dir.timing.state = "invalid" THEN LpFail("Timing Data does not parse")
       ELSE IF ~LocalMeta.some THEN LpFail("Invalid metadata: missing 'meta' field")
       ELSE LET meta_buffer == build_meta(LocalMeta.v, overflow_checks)
            IN  IF meta_buffer.tag = "Err" THEN LpFail(meta_buffer.err)
                ELSE IF meta_buffer.tag = "Panic"
                     THEN lp_pc' = "done" /\ lp_result' = [tag |-> "Panic"]
                ELSE IF ~chunks_dir.header.some THEN LpFail("Chunk file not found")
                ELSE lp_pc' = "streams" /\ UNCHANGED lp_result
    /\ IF lp_pc' = "streams"
       THEN LET files == SortStreamFiles(chunks_dir.streams)
                first == [header |-> ProgressUpdate(0, 1),
                          data_chunks |->
                            ProgressUpdate(0, Min(Len(files), Cfg.data_count)),
                          event_chunks |->
                            ProgressUpdate(0, Min(Len(PavlovEvents), Cfg.event_count)),
                          checkpoint_chunks |->
                            ProgressUpdate(0, Min(Len(CheckpointEvents),
                                                  Cfg.checkpoint_count))]
                second == [first EXCEPT !.header.current = 1]
            IN  /\ lp_chunks' = <<HeaderChunk(chunks_dir.header.v)>>
                /\ stream_files' = files
                /\ progress' = second
                /\ snapshots' = <<first, second>>
       ELSE UNCHANGED <<lp_chunks, stream_files, progress, snapshots>>
    /\ UNCHANGED <<coreVars, envVars, bmVars, rbVars, chunks_dir, config,
                   index, current_offset, output_file>>

\* The callback is invoked with a clone of progress
Snapshot(p) == Append(snapshots, p)

\* Lines 478-512: one pass of the loop over the stream files, or its end
LpStream ==
    /\ lp_pc = "streams"
    /\ IF index < Len(stream_files) /\ index < Cfg.data_count
       THEN LET file == stream_files[index + 1]
            IN  IF ~file.readable
                THEN /\ LpFail("Chunk file not found")
                     /\ UNCHANGED <<index, lp_chunks, progress, snapshots,
                                    current_offset>>
                ELSE IF file.data = <<>>
                THEN /\ index' = index + 1
                     /\ UNCHANGED <<lp_pc, lp_result, lp_chunks, progress,
                                    snapshots, current_offset>>
                ELSE /\ lp_chunks' = Append(lp_chunks,
                            LocalStreamChunk(TimingData, index, file.data))
                     /\ current_offset' = current_offset + Len(file.data)
                     /\ progress' = [progress EXCEPT !.data_chunks.current = index + 1]
                     /\ snapshots' = Snapshot(progress')
                     /\ index' = index + 1
                     /\ UNCHANGED <<lp_pc, lp_result>>
       ELSE /\ lp_pc' = "pavlov"
            /\ index' = 0
            /\ UNCHANGED <<lp_result, lp_chunks, progress, snapshots, current_offset>>
    /\ UNCHANGED <<coreVars, envVars, bmVars, rbVars, chunks_dir, config,
                   stream_files, output_file>>

\* EventPass counting one event more than it has passed
EventPassMutCountsAhead(evs, chunk_type, max_count, field) ==
    LET st == add_event_chunk([chunks |-> lp_chunks, current_offset |-> current_offset],
                              evs[index + 1], chunk_type, index, max_count)
    IN  /\ lp_chunks' = st.chunks
        /\ current_offset' = st.current_offset
        /\ progress' = [progress EXCEPT ![field].current = index + 2]
        /\ snapshots' = Snapshot(progress')
        /\ index' = index + 1
        /\ UNCHANGED <<lp_pc, lp_result>>

\* One pass of an event loop: the event at position index of events, as a
\* chunk of chunk_type, counted by the counter named field
EventPass(evs, chunk_type, max_count, field) ==
    LET st == add_event_chunk([chunks |-> lp_chunks, current_offset |-> current_offset],
                              evs[index + 1], chunk_type, index, max_count)
    IN  /\ lp_chunks' = st.chunks
        /\ current_offset' = st.current_offset
        /\ progress' = [progress EXCEPT ![field].current = index + 1]
        /\ snapshots' = Snapshot(progress')
        /\ index' = index + 1
        /\ UNCHANGED <<lp_pc, lp_result>>

\* Lines 538-545: one pass of the loop over the Pavlov events, or its end
LpPavlov ==
    /\ lp_pc = "pavlov"
    /\ IF index < Len(PavlovEvents) /\ index < Cfg.event_count
       THEN EventPass(PavlovEvents, 3, Cfg.event_count, "event_chunks")
       ELSE /\ lp_pc' = "checkpoint"
            /\ index' = 0
            /\ UNCHANGED <<lp_result, lp_chunks, progress, snapshots, current_offset>>
    /\ UNCHANGED <<coreVars, envVars, bmVars, rbVars, chunks_dir, config,
                   stream_files, output_file>>

\* Lines 548-555: one pass of the loop over the checkpoint events, or its end
LpCheckpoint ==
    /\ lp_pc = "checkpoint"
    /\ IF index < Len(CheckpointEvents) /\ index < Cfg.checkpoint_count
       THEN EventPass(CheckpointEvents, 2, Cfg.checkpoint_count, "checkpoint_chunks")
       ELSE /\ lp_pc' = "build"
            /\ index' = 0
            /\ UNCHANGED <<lp_result, lp_chunks, progress, snapshots, current_offset>>
    /\ UNCHANGED <<coreVars, envVars, bmVars, rbVars, chunks_dir, config,
                   stream_files, output_file>>

\* Lines 557-576: the container is built and written to the file named after
\* the replay; the write succeeds or fails
LpFinish ==
    /\ lp_pc = "build"
    /\ lp_pc' = "done"
    /\ LET meta_buffer == build_meta(LocalMeta.v, overflow_checks)
           ps == <<MetaPart(meta_buffer.v)>>
                    \o [k \in 1..Len(lp_chunks) |-> ChunkPart(lp_chunks[k])]
           replay == build_replay(ps)
           filename == [sanitized_name |-> SanitizedName(LocalMeta.v.friendlyName),
                        game_mode |-> LocalMeta.v.gameMode,
                        created_datetime |-> ParseCreated(LocalMeta.v.created)]
       IN  /\ parts' = ps
           /\ total_size' = TotalSize(ps)
           /\ buffers' = replay
           /\ IF replay.tag = "Panic"
              THEN lp_result' = [tag |-> "Panic"] /\ UNCHANGED output_file
              ELSE \E written \in BOOLEAN :
                     IF written
                     THEN /\ output_file' = [tag |-> "File", name |-> filename,
                                             content |-> replay.v]
                          /\ lp_result' = [tag |-> "Ok", v |-> replay.v]
                     ELSE /\ lp_result' = Err(Msg("write failed"))
                          /\ UNCHANGED output_file
    /\ UNCHANGED <<rtVars, call, dlVars, envVars, bmVars, rbVars,
                   chunks_dir, config, index, stream_files, lp_chunks, progress,
                   snapshots, current_offset>>

NextLocal == LpLoad \/ LpStream \/ LpPavlov \/ LpCheckpoint \/ LpFinish

SpecLocal == InitLocal /\ [][NextLocal]_vars


----------------------------------------------------------------------------
\* The three callers of build_meta side by side: build_meta called alone,
\* download_replay and process_replay

InitCreated == InitMeta \/ Init \/ InitLocal

NextCreated ==
    \/ pc = "idle" /\ lp_pc = "idle" /\ NextMeta
    \/ Next
    \/ NextLocal

SpecCreated == InitCreated /\ [][NextCreated]_vars

----------------------------------------------------------------------------
\* The container format as the specification words it, used to state the
\* claims about build_replay

\* A 32-bit value as 4 little-endian bytes (two's complement by floored division)
LE4(v) == [i \in 1..4 |-> (v \div (256 ^ (i - 1))) % 256]

\* A little-endian unsigned read of 4 bytes at 0-based offset off
ReadLE4(bytes, off) ==
    bytes[off + 1] + 256 * bytes[off + 2] + 65536 * bytes[off + 3]
        + 16777216 * bytes[off + 4]

KnownType(c) == c.chunk_type \in {0, 1, 2, 3}

\* A string buffer: the int32 len(s)+1, the UTF-8 bytes of s, one 0x00
StringBuffer(s) == LE4(StrLen(s) + 1) \o Utf8(s) \o <<0>>

\* The body length the format gives a chunk
BodyLength(c) ==
    CASE c.chunk_type = 0 -> Len(c.data)
      [] c.chunk_type = 1 -> 16 + Len(c.data)
      [] c.chunk_type \in {2, 3} ->
            (4 + StrLen(UnwrapOr(c.id, <<>>)) + 1)
            + (4 + StrLen(UnwrapOr(c.group, <<>>)) + 1)
            + (4 + StrLen(UnwrapOr(c.metadata, <<>>)) + 1) + 12 + Len(c.data)

\* The body the format gives a chunk
FormatBody(c) ==
    CASE c.chunk_type = 0 -> c.data
      [] c.chunk_type = 1 ->
            LE4(UnwrapOr(c.time1, 0)) \o LE4(UnwrapOr(c.time2, 0))
            \o LE4(Len(c.data)) \o LE4(UnwrapOr(c.size_in_bytes, Len(c.data)))
            \o c.data
      [] c.chunk_type \in {2, 3} ->
            StringBuffer(c.id.v) \o StringBuffer(c.group.v)
            \o StringBuffer(UnwrapOr(c.metadata, <<>>))
            \o LE4(UnwrapOr(c.time1, 0)) \o LE4(UnwrapOr(c.time2, 0))
            \o LE4(Len(c.data)) \o c.data

\* What one part contributes to the container
Segment(p) ==
    IF p.kind = "Meta" THEN p.data
    ELSE IF KnownType(p.chunk)
         THEN LE4(p.chunk.chunk_type) \o LE4(Len(FormatBody(p.chunk)))
                \o FormatBody(p.chunk)
         ELSE <<>>

\* The number of bytes one part contributes
SegmentLen(p) ==
    IF p.kind = "Meta" THEN Len(p.data)
    ELSE IF KnownType(p.chunk) THEN 8 + BodyLength(p.chunk) ELSE 0

RECURSIVE ConcatSegments(_)
ConcatSegments(ps) ==
    IF ps = <<>> THEN <<>> ELSE Segment(Head(ps)) \o ConcatSegments(Tail(ps))

RECURSIVE SumSegmentLen(_, _)
\* The 0-based offset of part number i: the bytes of the parts before it
SumSegmentLen(ps, n) ==
    IF n = 0 THEN 0 ELSE SegmentLen(ps[n]) + SumSegmentLen(ps, n - 1)

\* What the walk reads where no chunk fits
BadRead == [chunkType |-> -1, bodyLength |-> -1, body |-> <<>>]

RECURSIVE Walk(_, _)
\* Walk a container from 0-based offset off: read [chunkType][bodyLength], skip
\* bodyLength bytes, until the end.  The chunks read, with BadRead last when a
\* header or a body runs past the end
Walk(bytes, off) ==
    IF off = Len(bytes) THEN <<>>
    ELSE IF off + 8 > Len(bytes) THEN <<BadRead>>
    ELSE LET n == ReadLE4(bytes, off + 4)
         IN  IF off + 8 + n > Len(bytes) THEN <<BadRead>>
             ELSE <<[chunkType |-> ReadLE4(bytes, off), bodyLength |-> n,
                     body |-> SubSeq(bytes, off + 9, off + 8 + n)]>>
                  \o Walk(bytes, off + 8 + n)

\* The last n elements of a sequence
Suffix(q, n) == SubSeq(q, Len(q) - n + 1, Len(q))

Built == buffers.tag = "Ok"

\* C8: the bytes build_replay returns are the concatenation, in the order of
\* the input list, of each Meta part's bytes and each known-type chunk's
\* 8-byte header followed by its body: no part is reordered, merged or
\* duplicated.
C8_ConcatInListOrder == Built => buffers.v = ConcatSegments(parts)

\* C8 witness: a built list of three different parts, a chunk before the meta
\* record
C8_Witness ==
    /\ Built
    /\ Len(parts) = 3
    /\ parts[1].kind = "Chunk" /\ parts[1].chunk.chunk_type = 3
    /\ parts[2].kind = "Meta" /\ parts[2].data # <<>>
    /\ parts[3].kind = "Chunk" /\ parts[3].chunk.chunk_type = 1

\* C9: for every chunk build_replay encodes, the header's chunkType field is
\* the chunk's type and its bodyLength field is the number of body bytes that
\* follow: len(data) for type 0, 16 + len(data) for type 1, and
\* (4+len(id)+1)+(4+len(group)+1)+(4+len(metadata)+1)+12+len(data) for types
\* 2 and 3, in UTF-8 bytes.
C9_HeaderFields ==
    Built =>
        /\ Len(buffers.v) = SumSegmentLen(parts, Len(parts))
        /\ \A i \in 1..Len(parts) :
            (parts[i].kind = "Chunk" /\ KnownType(parts[i].chunk)) =>
                LET off == SumSegmentLen(parts, i - 1)
                IN  /\ ReadLE4(buffers.v, off) = parts[i].chunk.chunk_type
                    /\ ReadLE4(buffers.v, off + 4) = BodyLength(parts[i].chunk)

\* C9 witness: a built list holding a type-2 chunk with non-ASCII id and
\* metadata, followed by a type-1 chunk
C9_Witness ==
    /\ Built
    /\ Len(parts) = 3
    /\ parts[2].kind = "Chunk" /\ parts[2].chunk.chunk_type = 2
    /\ parts[2].chunk.id = Some(StrE1) /\ parts[2].chunk.metadata = Some(StrEuro)
    /\ parts[3].kind = "Chunk" /\ parts[3].chunk.chunk_type = 1

\* One meta record followed by known-type chunks
MetaThenChunks(ps) ==
    /\ Len(ps) >= 1
    /\ ps[1].kind = "Meta"
    /\ \A i \in 2..Len(ps) : ps[i].kind = "Chunk" /\ KnownType(ps[i].chunk)

\* C10: for one meta record followed by known-type chunks, the output length
\* is len(meta) + the sum of (8 + bodyLength), and the walk from offset
\* len(meta) visits exactly the input chunks in order and ends at the end of
\* the output; the example list gives 599 bytes with bytes 562..566 = 0,0,0,0
\* and bytes 566..570 = 3,0,0,0.
C10_WalkVisitsChunks ==
    (Built /\ MetaThenChunks(parts)) =>
        LET out == buffers.v
            seen == Walk(out, Len(parts[1].data))
        IN  /\ Len(seen) = Len(parts) - 1
            /\ \A i \in 1..Len(seen) :
                /\ seen[i] # BadRead
                /\ seen[i].chunkType = parts[i + 1].chunk.chunk_type
                /\ seen[i].bodyLength = BodyLength(parts[i + 1].chunk)
                /\ Suffix(seen[i].body, Len(parts[i + 1].chunk.data))
                     = parts[i + 1].chunk.data
            /\ Len(out) = Len(parts[1].data)
                 + SumSegmentLen(Tail(parts), Len(parts) - 1)
            /\ parts = ExampleParts =>
                /\ Len(parts[1].data) = 562
                /\ Len(out) = 599
                /\ SubSeq(out, 563, 566) = <<0, 0, 0, 0>>
                /\ SubSeq(out, 567, 570) = <<3, 0, 0, 0>>

\* C10 witness: the example list has been assembled
C10_Witness == Built /\ parts = ExampleParts /\ Len(buffers.v) = 599

----------------------------------------------------------------------------
\* Claims about the retry helpers (checked on a helper called alone)

\* The first n outcomes of the call are all transport errors
AllTransport(n) == \A k \in 1..n : call.outcomes[k] = TransportError

\* The last outcome of the call
LastOutcome == call.outcomes[Len(call.outcomes)]

\* C2: with max_retries = 5, a transport that fails exactly k < 5 times and
\* then answers 2xx makes get_with_retry and post_with_retry return success
\* after exactly k+1 sends (and not before); 5 transport failures in a row make
\* them return an error after exactly 5 sends, reporting 5 attempts.
C2_RetryCounts ==
    (max_retries = 5 /\ method \in {"GET", "POST"}) =>
        LET n == Len(call.outcomes)
        IN  /\ call.sends = n
            /\ (n < 5 /\ AllTransport(n)) => call.ret = Pending
            /\ (n >= 1 /\ AllTransport(n - 1) /\ LastOutcome.kind = "response"
                    /\ IsSuccess(LastOutcome.status)) =>
                /\ n - 1 < 5
                /\ call.ret = [tag |-> "Ok", status |-> LastOutcome.status]
                /\ call.sends = (n - 1) + 1
            /\ (n >= 5 /\ AllTransport(5)) =>
                /\ call.ret = [tag |-> "Err", kind |-> "attempts", attempts |-> 5]
                /\ call.sends = 5

\* C2 witness: a POST that failed 4 times and then succeeded on its 5th send
C2_Witness ==
    /\ max_retries = 5 /\ method = "POST"
    /\ Len(call.outcomes) = 5 /\ AllTransport(4)
    /\ LastOutcome = Response(204)
    /\ call.ret.tag = "Ok" /\ call.sends = 5

\* C3: a non-2xx response at any attempt makes the helper return at once an
\* error carrying the status: no sleep follows it, and a helper that has
\* returned sends nothing more.
C3_StatusNotRetried ==
    /\ [](((method \in {"GET", "POST"}) /\ call.outcomes # <<>>
            /\ LastOutcome.kind = "response" /\ ~IsSuccess(LastOutcome.status)) =>
                /\ call.ret = [tag |-> "Err", kind |-> "status",
                               status |-> LastOutcome.status]
                /\ Len(call.slept) = Len(call.outcomes) - 1)
    /\ [][(call.ret # Pending) => (call' = call)]_vars

\* C3 witness: a GET that met two transport errors and then a 404
C3_Witness ==
    /\ method = "GET"
    /\ call.outcomes = <<TransportError, TransportError, Response(404)>>
    /\ call.ret.tag = "Err" /\ call.ret.kind = "status" /\ call.ret.status = 404

----------------------------------------------------------------------------
\* Claims about download_replay

\* The chunks of a chunk list that have the given type, in list order
RECURSIVE OfType(_, _)
OfType(chunks, t) ==
    IF chunks = <<>> THEN <<>>
    ELSE (IF Head(chunks).chunk_type = t THEN <<Head(chunks)>> ELSE <<>>)
            \o OfType(Tail(chunks), t)

\* The events of a response that carry payload bytes, in response order
RECURSIVE WithPayload(_)
WithPayload(evs) ==
    IF evs = <<>> THEN <<>>
    ELSE (IF Head(evs).data.some /\ Head(evs).data.v.data.some
          THEN <<Head(evs)>> ELSE <<>>) \o WithPayload(Tail(evs))

\* Every stream fetch succeeded and the chunk list was completed
ChunksAssembled ==
    /\ pc = "done"
    /\ download_chunks # <<>>
    /\ \A i \in DOMAIN tasks : tasks[i].st = "ok"

\* The stream chunks of indices 0..n-1, ascending
StreamsAscending(n) == [k \in 1..n |-> StreamChunk(k - 1)]

\* C1: whatever the order in which the stream fetches completed, the type-1
\* chunks of the chunk list are those of stream indices 0, 1, ..., N-1 in this
\* order.
C1_StreamsInIndexOrder ==
    ChunksAssembled =>
        OfType(download_chunks, 1) = StreamsAscending(NumChunks(start_download.v))

\* C1 witness: two stream fetches completed in reverse order and the container
\* was assembled
C1_Witness ==
    /\ ChunksAssembled
    /\ collected = <<1, 0>>
    /\ buffers.tag = "Ok"

\* ceil(total / 100) for a count
CeilDiv100(t) == (t + 99) \div 100

\* C4: for a count total >= 0 reported by the service, discovery makes at most
\* ceil(total/100)+1 find calls, the id present or not; with total = 0 and the
\* id absent it makes exactly one and stops.
C4_DiscoveryBound ==
    svc_total >= 0 =>
        /\ NumFinds <= CeilDiv100(svc_total) + 1
        /\ (svc_total = 0 /\ pc = "find" /\ call.sends = 0) => NumFinds = 0
        /\ (svc_total = 0 /\ result = Err(Msg("Recording not available"))) =>
                (NumFinds = 1 /\ pc = "done")

\* C4 witness: with total = 101 and the id absent from every page, discovery
\* ended after 3 find calls, at offsets 0, 100 and 200
C4_Witness ==
    /\ svc_total = 101
    /\ result = Err(Msg("Recording not available"))
    /\ NumFinds = 3
    /\ requests[3] = [req |-> "find", arg |-> 200]

\* C5: an id with a non-alphanumeric character is rejected with the invalid-id
\* error before the client is built and before any request is made.
C5_InvalidIdRejected ==
    (\E i \in 1..Len(replay_id) : replay_id[i] \notin Alphanumeric) =>
        /\ client_built = FALSE
        /\ requests = <<>>
        /\ call.sends = 0
        /\ pc \in {"validate", "done"}
        /\ pc = "done" => result = Err(Msg("Invalid replay id"))

\* C5 witness: the id "a/" was rejected
C5_Witness ==
    /\ replay_id = <<97, 47>>
    /\ pc = "done"
    /\ result = Err(Msg("Invalid replay id"))

\* C6: once the startDownloading response has a state other than "Recorded"
\* (or none), download_replay has returned an error, startDownloading is the
\* last request it made, no stream fetch exists and no container is produced.
C6_NotRecordedFails ==
    (start_download.some /\ start_download.v.state # Some("Recorded")) =>
        /\ pc = "done"
        /\ result.tag = "Err"
        /\ requests[Len(requests)].req = "start"
        /\ tasks = <<>>
        /\ parts = <<>> /\ buffers.tag = "None"

\* C6 witness: a response without state field ended the download
C6_Witness ==
    /\ start_download.some
    /\ ~start_download.v.state.some
    /\ pc = "done"
    /\ result = Err(Msg("Recording must be finished before download"))

\* The chunks of a part list handed to build_replay, after its meta record
PartChunks == [k \in 1..(Len(parts) - 1) |-> parts[k + 1].chunk]

\* The payload fields a chunk takes from its event
FromEvent(chunk, ev) ==
    /\ chunk.data = ev.data.v.data.v
    /\ chunk.id = ev.id /\ chunk.group = ev.group /\ chunk.metadata = ev.meta
    /\ chunk.time1 = ev.time1 /\ chunk.time2 = ev.time2

\* C7: the chunk list handed to build_replay is one type-0 header chunk, then
\* the type-1 chunks in ascending stream index, then the type-2 chunks of the
\* checkpoint events in response order, then the type-3 chunks of the Pavlov
\* events in response order; no chunk of an earlier kind follows one of a later
\* kind.
C7_ChunkListShape ==
    (pc = "done" /\ parts # <<>>) =>
        LET chunks == PartChunks
            cps == WithPayload(events)
            pvs == WithPayload(events_pavlov)
        IN  /\ parts[1].kind = "Meta"
            /\ \A k \in 2..Len(parts) : parts[k].kind = "Chunk"
            /\ chunks # <<>>
            /\ chunks[1] = HeaderChunk(HeaderData)
            /\ Len(OfType(chunks, 0)) = 1
            /\ \A j, k \in 1..Len(chunks) :
                    j < k => chunks[j].chunk_type <= chunks[k].chunk_type
            /\ \A k \in 1..Len(chunks) : chunks[k].chunk_type \in {0, 1, 2, 3}
            /\ OfType(chunks, 1) = StreamsAscending(NumChunks(start_download.v))
            /\ Len(OfType(chunks, 2)) = Len(cps)
            /\ \A k \in 1..Len(cps) : FromEvent(OfType(chunks, 2)[k], cps[k])
            /\ Len(OfType(chunks, 3)) = Len(pvs)
            /\ \A k \in 1..Len(pvs) : FromEvent(OfType(chunks, 3)[k], pvs[k])

\* C7 witness: a container assembled from two stream chunks, two checkpoint
\* events and two Pavlov events
C7_Witness ==
    /\ pc = "done" /\ buffers.tag = "Ok"
    /\ DOMAIN tasks = {0, 1}
    /\ events = <<EvB, EvNoData, EvA>>
    /\ events_pavlov = <<EvA, EvOther>>
    /\ Len(parts) = 8

----------------------------------------------------------------------------
\* Properties of build_meta (SpecMeta)

\* The n bytes at 0-based offset off
Bytes(b, off, n) == SubSeq(b, off + 1, off + n)

\* Two's complement little-endian bytes of a 32-bit integer: for a negative
\* v, the complement of the bytes of -v - 1
Le32(v) ==
    [i \in 1..4 |->
        IF v >= 0 THEN (v \div (256 ^ (i - 1))) % 256
        ELSE 255 - (((-v - 1) \div (256 ^ (i - 1))) % 256)]

MetaBuilt == bm_result.tag # "None"

CreatedParses == ParseCreated(bm_meta.created).ok

\* The encoded display string of the metadata
NameBytes == Utf16LE(FriendlyNameStr(bm_meta))

\* 621355968000000000 as 621355968 * 10^3 * 10^6
EpochFormula == MulDigits(MulDigits(NatDigits(621355968), 1000, 0), 1000000, 0)

\* unixMillis(created) * 10000 + 621355968000000000, in unbounded arithmetic
TickFormula ==
    LET t == ParseCreated(bm_meta.created)
        unixMillis == AddDigits(MulDigits(t.secs, 1000, 0), NatDigits(t.ms), 0)
    IN  AddDigits(MulDigits(unixMillis, 10000, 0), EpochFormula, 0)

\* The tick count of the metadata fits an int64
TicksFit == FitsI64(TickFormula)

\* C11: for every MetaData whose created field parses, build_meta returns a
\* record of exactly 562 bytes.
C11_Always562 ==
    (MetaBuilt /\ CreatedParses) =>
        (bm_result.tag = "Ok" /\ Len(bm_result.v) = 562)

\* C11, the part about the buffer: no call of build_meta ends with a buffer
\* overflow or a size mismatch, and every record returned has 562 bytes
C11_WritesFit ==
    /\ (bm_result.tag = "Err") => ~CreatedParses
    /\ (bm_result.tag = "Ok") => Len(bm_result.v) = 562

\* C12: in every record build_meta returns the fields sit at fixed offsets,
\* little-endian: 0x1CA2E27F at 0, 6 at 4, totalTime at 8, version at 12, 0 at
\* 16, -257 at 20, the 514-byte friendly-name block at 24, the live flag at
\* 538, the int64 tick count at 542 and three int32 zeros at 550..562.
C12_FixedOffsets ==
    (bm_result.tag = "Ok") =>
        LET b == bm_result.v
        IN  /\ Len(b) = 562
            /\ Bytes(b, 0, 4) = <<127, 226, 162, 28>>
            /\ Bytes(b, 4, 4) = <<6, 0, 0, 0>>
            /\ Bytes(b, 8, 4) = Le32(bm_meta.totalTime)
            /\ Bytes(b, 12, 4) = Le32(bm_meta.version)
            /\ Bytes(b, 16, 4) = <<0, 0, 0, 0>>
            /\ Bytes(b, 20, 4) = <<255, 254, 255, 255>>
            /\ Bytes(b, 24, 514) = FriendlyNameBuffer(NameBytes)
            /\ Bytes(b, 538, 4) = <<IF bm_meta.live THEN 1 ELSE 0, 0, 0, 0>>
            /\ Bytes(b, 542, 8) = I64LE(TickFormula)
            /\ Bytes(b, 550, 12) = [i \in 1..12 |-> 0]

\* C12 witness: a record was returned for a live replay with a negative
\* totalTime and an RFC3339 created time
C12_Witness ==
    /\ bm_result.tag = "Ok"
    /\ bm_meta.live /\ bm_meta.totalTime = -1
    /\ bm_meta.created = [kind |-> "rfc3339", secs |-> 1614834367, ms |-> 89]
    /\ Bytes(bm_result.v, 8, 4) = <<255, 255, 255, 255>>

\* C14: the int64 build_meta writes for the created timestamp equals
\* unixMillis(created) * 10000 + 621355968000000000 (an integer created value
\* counting seconds, so 1000 milliseconds each).
C14_TicksFormula ==
    (bm_result.tag = "Ok") =>
        /\ TicksFit
        /\ Bytes(bm_result.v, 542, 8) = I64LE(TickFormula)

\* C14, for tick counts that fit an int64: the int64 written is the formula's
\* value; for created = "1" it is 10^7 + 621355968000000000
C14_TicksFormulaInRange ==
    (bm_result.tag = "Ok" /\ TicksFit) =>
        /\ Bytes(bm_result.v, 542, 8) = I64LE(TickFormula)
        /\ (bm_meta.created = [kind |-> "int", digits |-> <<1>>]) =>
               Bytes(bm_result.v, 542, 8)
                    = I64LE(AddDigits(NatDigits(10000000), EpochFormula, 0))

\* UTF-16 code units of little-endian bytes
Utf16UnitsOf(bytes) ==
    [k \in 1..(Len(bytes) \div 2) |-> bytes[2 * k - 1] + 256 * bytes[2 * k]]

\* The code units before the first NUL
UntilNul(u) ==
    LET nuls == { k \in 1..Len(u) : u[k] = 0 }
    IN  IF nuls = {} THEN u
        ELSE SubSeq(u, 1, (CHOOSE k \in nuls : \A j \in nuls : k <= j) - 1)

\* The code units without the trailing spaces
StripSpaces(u) ==
    LET solid == { k \in 1..Len(u) : u[k] # 32 }
    IN  IF solid = {} THEN <<>>
        ELSE SubSeq(u, 1, CHOOSE k \in solid : \A j \in solid : j <= k)

\* Scalar values of UTF-16 code units, pairing surrogates: every code unit
\* starts a scalar value except the low half of a pair
DecodeUtf16(u) ==
    LET lows == { k \in 2..Len(u) :
                    u[k] \in 56320..57343 /\ u[k - 1] \in 55296..56319 }
        rank(k) == k - Cardinality({ l \in lows : l < k })
        scalar(k) == IF (k + 1) \in lows
                     THEN 65536 + (u[k] - 55296) * 1024 + (u[k + 1] - 56320)
                     ELSE u[k]
    IN  [j \in 1..(Len(u) - Cardinality(lows)) |->
            scalar(CHOOSE k \in j..(j + Cardinality(lows)) :
                        k <= Len(u) /\ k \notin lows /\ rank(k) = j)]

\* What a reader recovers from the block: the text before the terminator,
\* without the padding spaces
DecodeBlock(block) == DecodeUtf16(StripSpaces(UntilNul(Utf16UnitsOf(block))))

\* C13: when the UTF-16LE encoding of the display string has L <= 512 bytes,
\* the block holds those L bytes at its start, UTF-16LE spaces from L up to
\* byte 512 and 0x00,0x00 in its last two bytes, and the string is recovered
\* from the block; when L > 512 the length makes no call fail: an error comes
\* only from a created value that does not parse, a panic only from a tick
\* count outside int64, and a returned record has 562 bytes.
C13_NameBlock ==
    LET L == Len(NameBytes)
    IN  /\ (bm_result.tag = "Ok" /\ L <= 512) =>
            LET block == Bytes(bm_result.v, 24, 514)
            IN  /\ SubSeq(block, 1, L) = NameBytes
                /\ \A i \in (L + 1)..512 :
                        block[i] = (IF i % 2 = 1 THEN 32 ELSE 0)
                /\ block[513] = 0 /\ block[514] = 0
                /\ DecodeBlock(block) = FriendlyNameStr(bm_meta)
        /\ (MetaBuilt /\ L > 512) =>
            /\ (bm_result.tag = "Err") => ~CreatedParses
            /\ (bm_result.tag = "Panic") => ~TicksFit
            /\ (bm_result.tag = "Ok") => Len(bm_result.v) = 562
            /\ (CreatedParses /\ TicksFit) => bm_result.tag = "Ok"

\* C13 witness: a record whose display string, with a character outside the
\* basic plane, fills the 512 bytes exactly
C13_Witness ==
    /\ bm_result.tag = "Ok"
    /\ bm_meta.gameMode = <<128512>>
    /\ Len(NameBytes) = 512

\* A record was returned for a display string longer than the block
C13_LongNameReturned == bm_result.tag = "Ok" /\ Len(NameBytes) > 514

----------------------------------------------------------------------------
\* Properties of ReplayBuffer (SpecBuffer)

\* The bytes a write stores and the name its overflow error carries
WriteSize ==
    CASE rbuf_call.op = "write_int32" -> 4
      [] rbuf_call.op = "write_int64" -> 8
      [] rbuf_call.op = "write_bytes" -> Len(rbuf_call.value)

WriteStored ==
    CASE rbuf_call.op = "write_int32" -> Le32(rbuf_call.value)
      [] rbuf_call.op = "write_int64" ->
            [i \in 1..8 |-> IF i <= Len(rbuf_call.value)
                            THEN rbuf_call.value[i] ELSE 0]
      [] rbuf_call.op = "write_bytes" -> rbuf_call.value

OverflowText ==
    CASE rbuf_call.op = "write_int32" -> "Buffer overflow while writing int32"
      [] rbuf_call.op = "write_int64" -> "Buffer overflow while writing int64"
      [] rbuf_call.op = "write_bytes" -> "Buffer overflow while writing bytes"

IsWrite == rbuf_call.op \in {"write_int32", "write_int64", "write_bytes"}

\* C15: a write whose size would take the cursor past the capacity returns
\* the overflow error naming the operation and leaves cursor and bytes as
\* they were; a write that fits succeeds, stores the little-endian value at
\* the old cursor, changes no other byte and advances the cursor by 4, 8 or
\* len(bytes).
C15_WriteContract ==
    IsWrite =>
        LET b == rbuf_call.before
        IN  IF b.pos + WriteSize > Len(b.buffer)
            THEN /\ rbuf_call.ret = [ok |-> FALSE, err |-> OverflowText]
                 /\ rbuf = b
            ELSE /\ rbuf_call.ret = [ok |-> TRUE]
                 /\ rbuf.pos = b.pos + WriteSize
                 /\ Len(rbuf.buffer) = Len(b.buffer)
                 /\ \A i \in 1..Len(b.buffer) :
                        rbuf.buffer[i] =
                            IF i > b.pos /\ i <= b.pos + WriteSize
                            THEN WriteStored[i - b.pos] ELSE b.buffer[i]

\* C15 witness: after 7 bytes were written into a 9-byte buffer, a
\* write_int32 was refused and the 7 bytes are still there
C15_Witness ==
    /\ rbuf_call.op = "write_int32"
    /\ ~rbuf_call.ret.ok
    /\ rbuf.pos = 7 /\ Len(rbuf.buffer) = 9
    /\ Bytes(rbuf.buffer, 0, 7) = <<254, 255, 255, 255, 8, 9, 10>>

\* A write that ends exactly at the capacity succeeded
C15_ExactFit ==
    /\ rbuf_call.op = "write_bytes" /\ rbuf_call.ret.ok
    /\ rbuf.pos = Len(rbuf.buffer) /\ rbuf_call.value = <<8, 9, 10>>

\* C16: validate(expected) returns an error reporting the expected and the
\* actual size if and only if the cursor differs from expected, Ok exactly
\* when they are equal, and changes neither the cursor nor the buffer.
C16_ValidateContract ==
    (rbuf_call.op = "validate") =>
        LET b == rbuf_call.before
        IN  /\ rbuf = b
            /\ rbuf_call.ret =
                IF b.pos = rbuf_call.value THEN [ok |-> TRUE]
                ELSE [ok |-> FALSE, err |-> "Invalid buffer size",
                      expected |-> rbuf_call.value, wrote |-> b.pos]

\* C16 witness: validate failed because more bytes were written than expected
C16_Witness ==
    /\ rbuf_call.op = "validate"
    /\ ~rbuf_call.ret.ok
    /\ rbuf.pos = 8 /\ rbuf_call.value = 4

\* validate failed because fewer bytes were written than expected
C16_FewerWritten ==
    /\ rbuf_call.op = "validate" /\ ~rbuf_call.ret.ok
    /\ rbuf.pos = 4 /\ rbuf_call.value = 8

----------------------------------------------------------------------------
\* Unknown chunk types in build_replay (SpecBuild)

UnknownPart(p) == p.kind = "Chunk" /\ ~KnownType(p.chunk)

\* The part list without its chunks of unknown type
KnownParts(ps) == SelectSeq(ps, LAMBDA p : ~UnknownPart(p))

\* A type-2/3 chunk without id or group is in the list
LacksIdOrGroup(ps) ==
    \E i \in 1..Len(ps) :
        /\ ps[i].kind = "Chunk"
        /\ ps[i].chunk.chunk_type \in {2, 3}
        /\ (~ps[i].chunk.id.some \/ ~ps[i].chunk.group.some)

\* C17: when the list holds a chunk whose type is not 0, 1, 2 or 3,
\* build_replay ends exactly as it does on the list without that chunk; it
\* returns Ok (unless another chunk lacks id or group), and the output is the
\* concatenation of the other parts' encodings, with no byte for the unknown
\* chunk.
C17_UnknownSkipped ==
    (buffers # NotBuilt /\ \E i \in 1..Len(parts) : UnknownPart(parts[i])) =>
        /\ buffers = build_replay(KnownParts(parts))
        /\ ~LacksIdOrGroup(parts) =>
            /\ buffers.tag = "Ok"
            /\ buffers.v = ConcatSegments(KnownParts(parts))
            /\ Len(buffers.v) = SumSegmentLen(KnownParts(parts),
                                              Len(KnownParts(parts)))

\* C17 witness: a list with an unknown chunk between a data chunk and an
\* event chunk was assembled
C17_Witness ==
    /\ Built
    /\ Len(parts) = 3
    /\ parts[1] = ChunkPart(Chunk(<<9, 9>>, 1, Some(5), Some(6), None, None,
                                  None, None))
    /\ UnknownPart(parts[2])
    /\ parts[3].kind = "Chunk" /\ parts[3].chunk.chunk_type = 3
    /\ Len(buffers.v) > 26

----------------------------------------------------------------------------
\* Discovery and event chunks of download_replay (Spec)

\* The position of the startDownloading call in the log of helper calls
StartCalls == { k \in 1..Len(requests) : requests[k].req = "start" }

NotAvailable == result = Err(Msg("Recording not available"))

\* C19: for a count total >= 0, the find calls are the first calls and have
\* offsets 0, 100, 200, ... in this order, one at a time; the call after the
\* first page holding the id is startDownloading and no find follows it; a
\* page without the id read at an offset >= total ends download_replay with
\* the not-available error and without a startDownloading call.
C19_DiscoveryOrder ==
    svc_total >= 0 =>
        /\ \A k \in 1..Len(requests) :
                (k <= NumFinds) <=> (requests[k].req = "find")
        /\ \A k \in 1..NumFinds : requests[k].arg = 100 * (k - 1)
        /\ find_all_response.some => pc # "find"
        /\ \A k \in StartCalls : k = NumFinds + 1 /\ find_all_response.some
        /\ (pc = "find" /\ call.sends = 0 /\ NumFinds > 0) =>
                requests[NumFinds].arg < svc_total
        /\ NotAvailable =>
            /\ pc = "done"
            /\ StartCalls = {}
            /\ ~find_all_response.some
            /\ NumFinds > 0 /\ requests[NumFinds].arg >= svc_total

\* C19 witness: with total = 101 the id was on the third page, read at offset
\* 200, and the next call was startDownloading
C19_Witness ==
    /\ svc_total = 101
    /\ Len(requests) >= 4
    /\ requests[3] = [req |-> "find", arg |-> 200]
    /\ requests[4].req = "start"
    /\ find_all_response.some

\* Discovery ended with the not-available error at offset 100 = total
C19_NotFoundAtTotal ==
    /\ svc_total = 100 /\ NotAvailable
    /\ requests = <<[req |-> "find", arg |-> 0], [req |-> "find", arg |-> 100]>>

\* C18: in the online pipeline an event becomes a type-2 or type-3 chunk only
\* if both its id and its group are present, so no type-2/3 chunk handed to
\* build_replay lacks id or group.
C18_EventChunksHaveIdGroup ==
    \A k \in 1..Len(parts) :
        (parts[k].kind = "Chunk" /\ parts[k].chunk.chunk_type \in {2, 3}) =>
            (parts[k].chunk.id.some /\ parts[k].chunk.group.some)

\* C18: build_replay, called by download_replay, never aborts on a missing
\* id or group
C18_OnlineNeverAborts == buffers.tag # "Panic"

----------------------------------------------------------------------------
\* The chunk list of process_replay (SpecLocal)

\* process_replay called build_replay
LocalBuilt == lp_pc = "done" /\ parts # <<>>

\* Where a kind of chunk stands in the local list: header, stream, Pavlov
\* event, checkpoint event
LocalRank(chunk) ==
    CASE chunk.chunk_type = 0 -> 0
      [] chunk.chunk_type = 1 -> 1
      [] chunk.chunk_type = 3 -> 2
      [] chunk.chunk_type = 2 -> 3
      [] OTHER -> 4

\* The first max_count events of a group that have id and group
WithIdAndGroup(evs, max_count) ==
    SelectSeq(SubSeq(evs, 1, Min(Len(evs), max_count)),
              LAMBDA ev : ev.id.some /\ ev.group.some)

\* The file number of a stream file name: its decimal value when the text
\* after "stream." up to the next dot is a number that fits 32 bits, else 0
FileNumber(file) ==
    LET dots == { k \in 1..Len(file.name) : file.name[k] = 46 }
        text == IF dots = {} THEN file.name
                ELSE SubSeq(file.name, 1,
                            (CHOOSE k \in dots : \A j \in dots : k <= j) - 1)
        parsed == ParseI32(text)
    IN  IF parsed.some THEN parsed.v ELSE 0

\* The stream files by ascending file number: files[order[k]] for a
\* permutation order that keeps the listing order among equal numbers
AscendingFiles(files) ==
    LET before(i, j) ==
            \/ FileNumber(files[i]) < FileNumber(files[j])
            \/ FileNumber(files[i]) = FileNumber(files[j]) /\ i < j
        place(i) == 1 + Cardinality({ j \in 1..Len(files) : before(j, i) })
    IN  [k \in 1..Len(files) |->
            files[CHOOSE i \in 1..Len(files) : place(i) = k]]

\* The data of the stream files process_replay turns into chunks: of the
\* first data_count files by ascending number, those that are not empty
StreamData ==
    LET files == AscendingFiles(chunks_dir.streams)
        taken == SubSeq(files, 1, Min(Len(files), Cfg.data_count))
        full == SelectSeq(taken, LAMBDA f : f.data # <<>>)
    IN  [k \in 1..Len(full) |-> full[k].data]

\* C20: the chunk list process_replay passes to build_replay is one type-0
\* header chunk, then the type-1 stream chunks in ascending stream file
\* number, then the type-3 chunks of events_pavlov, then the type-2 chunks of
\* the checkpoint events, each group in file order.
C20_LocalChunkListShape ==
    LocalBuilt =>
        LET chunks == PartChunks
            pvs == WithIdAndGroup(PavlovEvents, Cfg.event_count)
            cps == WithIdAndGroup(CheckpointEvents, Cfg.checkpoint_count)
            streams == OfType(chunks, 1)
        IN  /\ parts[1].kind = "Meta"
            /\ \A k \in 2..Len(parts) : parts[k].kind = "Chunk"
            /\ chunks # <<>>
            /\ chunks[1] = HeaderChunk(chunks_dir.header.v)
            /\ Len(OfType(chunks, 0)) = 1
            /\ \A k \in 1..Len(chunks) : chunks[k].chunk_type \in {0, 1, 2, 3}
            /\ \A j, k \in 1..Len(chunks) :
                    j < k => LocalRank(chunks[j]) <= LocalRank(chunks[k])
            /\ [k \in 1..Len(streams) |-> streams[k].data] = StreamData
            /\ Len(OfType(chunks, 3)) = Len(pvs)
            /\ \A k \in 1..Len(pvs) :
                    /\ OfType(chunks, 3)[k].id = pvs[k].id
                    /\ OfType(chunks, 3)[k].group = pvs[k].group
                    /\ OfType(chunks, 3)[k].metadata = pvs[k].meta
            /\ Len(OfType(chunks, 2)) = Len(cps)
            /\ \A k \in 1..Len(cps) :
                    /\ OfType(chunks, 2)[k].id = cps[k].id
                    /\ OfType(chunks, 2)[k].group = cps[k].group
                    /\ OfType(chunks, 2)[k].metadata = cps[k].meta

\* C20 witness: a container was built from stream.10, stream.2 (empty),
\* stream.1 and stream.0, listed in this order, two Pavlov events and three
\* checkpoint events: the type-3 chunks stand before the type-2 chunks
C20_Witness ==
    /\ LocalBuilt /\ lp_result.tag = "Ok"
    /\ chunks_dir.streams = <<F10, F2, F1, F0>>
    /\ Len(parts) = 10
    /\ [k \in 3..5 |-> parts[k].chunk.data] = [k \in 3..5 |-> <<F0, F1, F10>>[k - 2].data]
    /\ parts[6].chunk.chunk_type = 3 /\ parts[7].chunk.chunk_type = 3
    /\ parts[8].chunk.chunk_type = 2 /\ parts[10].chunk.chunk_type = 2

\* C18, local pipeline: process_replay never hands build_replay a type-2/3
\* chunk without id or group, and build_replay never aborts
C18_LocalHasIdGroup ==
    /\ \A k \in 1..Len(parts) :
        (parts[k].kind = "Chunk" /\ parts[k].chunk.chunk_type \in {2, 3}) =>
            (parts[k].chunk.id.some /\ parts[k].chunk.group.some)
    /\ buffers.tag # "Panic"

\* An event without id was dropped by process_replay
C18_LocalDropped ==
    /\ LocalBuilt
    /\ CheckpointEvents = <<EvNoId>>
    /\ Cfg.checkpoint_count > 0
    /\ OfType(PartChunks, 2) = <<>>

----------------------------------------------------------------------------
\* Timing of the stream chunks of process_replay (SpecLocal)

\* The decimal texts the timing inputs use and the number each one is as a
\* usize (numchunks) and as an i32 (mtime1, mtime2), as Rust's parse reads
\* them: absent from a table when the parse fails
UsizeTexts ==
    { <<<<49>>, 1>>, <<<<50>>, 2>>, <<<<48, 50>>, 2>>, <<<<43, 49>>, 1>> }

I32Texts ==
    { <<<<53>>, 5>>, <<<<54>>, 6>>, <<<<57>>, 9>>, <<<<49>>, 1>>,
      <<<<45, 55>>, 0 - 7>>, <<<<43, 51>>, 3>>,
      <<<<50, 49, 52, 55, 52, 56, 51, 54, 52, 55>>, 2147483647>> }

\* The time a stream chunk of number chunk_number is to carry, read from the
\* field (mtime1 or mtime2) of the first entry numbered chunk_number
ExpectedTime(chunk_number, field) ==
    LET hits == { k \in 1..Len(TimingData) :
                    <<TimingData[k].numchunks, chunk_number>> \in UsizeTexts }
        first == CHOOSE k \in hits : \A j \in hits : k <= j
        values == IF hits = {} THEN {}
                  ELSE { t[2] : t \in { u \in I32Texts : u[1] = TimingData[first][field] } }
    IN  IF values = {} THEN 0 ELSE CHOOSE v \in values : TRUE

\* C21: the stream chunk made from the file at position i of the sorted
\* stream files carries the times of the first timing entry whose numchunks
\* parses to i + 1, and 0 for a time when there is no such entry or its text
\* is no 32-bit integer; the stream loop fails only on a file it cannot read.
C21_StreamTiming ==
    [][lp_pc = "streams" =>
        /\ Len(lp_chunks') > Len(lp_chunks) =>
            /\ lp_chunks' = Append(lp_chunks, lp_chunks'[Len(lp_chunks')])
            /\ lp_chunks'[Len(lp_chunks')].chunk_type = 1
            /\ lp_chunks'[Len(lp_chunks')].data = stream_files[index + 1].data
            /\ lp_chunks'[Len(lp_chunks')].time1 =
                    Some(ExpectedTime(index + 1, "mtime1"))
            /\ lp_chunks'[Len(lp_chunks')].time2 =
                    Some(ExpectedTime(index + 1, "mtime2"))
        /\ lp_pc' = "done" =>
            /\ index < Len(stream_files)
            /\ ~stream_files[index + 1].readable]_vars

\* C21 witness: of stream.0, stream.1, stream.2 (empty) and stream.10 the
\* first chunk took 5 and 6 from the first of two entries numbered 1, the
\* second 0 for the mtime1 "x" and -7, the last 0 and 0 for want of an entry 4
C21_Witness ==
    /\ lp_pc = "pavlov"
    /\ stream_files = <<F0, F1, F2, F10>>
    /\ Len(TimingData) = 3 /\ TimingData[1].mtime1 = <<120>>
    /\ Len(lp_chunks) = 4
    /\ lp_chunks[2].time1 = Some(5) /\ lp_chunks[2].time2 = Some(6)
    /\ lp_chunks[3].time1 = Some(0) /\ lp_chunks[3].time2 = Some(0 - 7)
    /\ lp_chunks[4].data = F10.data
    /\ lp_chunks[4].time1 = Some(0) /\ lp_chunks[4].time2 = Some(0)

\* Times out of the i32 range and empty texts became 0; "+1" and "02" are
\* numbers, "-1" is none
C21_OutOfRange ==
    /\ lp_pc = "pavlov"
    /\ stream_files = <<F0, F1>>
    /\ Len(TimingData) = 3 /\ TimingData[1].numchunks = <<45, 49>>
    /\ Len(lp_chunks) = 3
    /\ lp_chunks[2].time1 = Some(3) /\ lp_chunks[2].time2 = Some(0)
    /\ lp_chunks[3].time1 = Some(0) /\ lp_chunks[3].time2 = Some(2147483647)

----------------------------------------------------------------------------
\* Backoff of the retry helpers (SpecRetry)

\* How many of the sends of the call ended in a transport error
TransportFailures ==
    Cardinality({ k \in 1..Len(call.outcomes) : call.outcomes[k] = TransportError })

\* C22: with max_retries = 5 the sleeps of get_with_retry and post_with_retry
\* are 2, 4, 8 and 16 seconds in this order, one after each of the first four
\* failed transport attempts: none before the first attempt, none after the
\* 5th failure, none after a response; a sleep is always followed by a
\* further attempt.
C22_BackoffSchedule ==
    /\ []((max_retries = 5 /\ method \in {"GET", "POST"}) =>
            /\ Len(call.slept) <= 4
            /\ \A k \in 1..Len(call.slept) : call.slept[k] = 2 ^ k
            /\ Len(call.slept) = Min(TransportFailures, 4)
            /\ call.sends = 0 => call.slept = <<>>
            /\ call.ret # Pending => Len(call.slept) = call.sends - 1)
    /\ [][(max_retries = 5 /\ Len(call'.slept) > Len(call.slept)) =>
            /\ call'.sends = call.sends + 1
            /\ call'.outcomes[call'.sends] = TransportError
            /\ call'.slept = Append(call.slept, call.backoff)
            /\ call'.backoff = 2 * call.backoff
            /\ call'.ret = Pending]_vars

\* C22 witness: a GET that failed 5 times slept 2, 4, 8 and 16 seconds and
\* returned the error without a fifth sleep
C22_Witness ==
    /\ max_retries = 5 /\ method = "GET"
    /\ call.sends = 5 /\ AllTransport(5)
    /\ call.slept = <<2, 4, 8, 16>>
    /\ call.ret = [tag |-> "Err", kind |-> "attempts", attempts |-> 5]

\* A POST slept 2 and 4 seconds before its third attempt succeeded
C22_PostSleptTwice ==
    /\ max_retries = 5 /\ method = "POST"
    /\ call.outcomes = <<TransportError, TransportError, Response(200)>>
    /\ call.slept = <<2, 4>>

----------------------------------------------------------------------------
\* Order of the requests of download_replay (Spec)

\* The sequential steps in the order the claim gives them
StepRank(req) ==
    CASE req = "find" -> 0
      [] req = "start" -> 1
      [] req = "meta" -> 2
      [] req = "events" -> 3
      [] req = "events_pavlov" -> 4
      [] req = "header" -> 5

\* The requests of the kind req issued so far
Issued(req) == { k \in 1..Len(requests) : requests[k].req = req }

\* A stream request has been sent
StreamRequested == \E i \in DOMAIN tasks : tasks[i].call.sends > 0 \/ tasks[i].st \in {"ok", "err"}

\* download_replay has returned an error
Failed == result.tag = "Err"

\* C23: the requests of download_replay are issued in the order find (any
\* number), startDownloading, meta, checkpoint events, Pavlov events,
\* replay.header, streams, none of the later six skipped or repeated; a step's
\* request is issued only after the step before it succeeded, and after a
\* failure no further request is issued.
C23_RequestOrder ==
    /\ [](/\ \A j, k \in 1..Len(requests) :
                j < k => /\ StepRank(requests[j].req) <= StepRank(requests[k].req)
                         /\ StepRank(requests[k].req) <= StepRank(requests[j].req) + (k - j)
                         /\ requests[k].req # "find" => requests[j].req # requests[k].req
          /\ requests # <<>> => requests[1].req = "find"
          /\ Issued("start") # {} => find_all_response.some
          /\ Issued("meta") # {} => start_download.some /\ StateIsRecorded(start_download.v)
          /\ Issued("events") # {} => meta.some
          /\ StreamRequested =>
                /\ Issued("header") # {}
                /\ download_chunks # <<>>
                /\ download_chunks[1].chunk_type = 0)
    /\ [][/\ requests' # requests =>
                /\ requests' = Append(requests, requests'[Len(requests')])
                /\ requests'[Len(requests')].req = pc
                /\ call = NewCall
          /\ Failed =>
                /\ requests' = requests
                /\ \A i \in DOMAIN tasks : tasks'[i].call.sends = tasks[i].call.sends
                /\ DOMAIN tasks' = DOMAIN tasks]_vars

\* C23 witness: a run that ended Ok issued one find, then startDownloading,
\* meta, both event groups and the header, and then its stream requests
C23_Witness ==
    /\ result.tag = "Ok"
    /\ [k \in 1..Len(requests) |-> requests[k].req] =
            <<"find", "start", "meta", "events", "events_pavlov", "header">>
    /\ DOMAIN tasks # {}
    /\ \A i \in DOMAIN tasks : tasks[i].st = "ok"

\* The checkpoint event request failed: the Pavlov events, the header and
\* the streams were never requested
C23_FailedAtEvents ==
    /\ Failed
    /\ requests # <<>> /\ requests[Len(requests)].req = "events"
    /\ ~StreamRequested

----------------------------------------------------------------------------
\* Completeness of the stream chunks of download_replay (Spec)

\* The count the startDownloading response announced (0 when it names none)
Announced == IF start_download.v.numChunks.some THEN start_download.v.numChunks.v ELSE 0

\* The type-1 chunks handed to build_replay that hold the body of stream.{i}
StreamCopies(i) ==
    { k \in 1..Len(PartChunks) :
        PartChunks[k].chunk_type = 1 /\ PartChunks[k].data = StreamChunk(i).data }

\* A stream fetch ended in an error
SomeFetchFailed == \E i \in DOMAIN tasks : tasks[i].st = "err"

\* C24: when download_replay returns Ok its chunk list holds exactly numChunks
\* type-1 chunks, one for each index 0..numChunks-1; when a stream fetch
\* fails download_replay returns an error and assembles no container.
C24_AllStreamsOrError ==
    /\ result.tag = "Ok" =>
        /\ start_download.some
        /\ Len(OfType(PartChunks, 1)) = Announced
        /\ \A i \in 0..(Announced - 1) : Cardinality(StreamCopies(i)) = 1
        /\ DOMAIN tasks = 0..(Announced - 1)
        /\ \A i \in DOMAIN tasks : tasks[i].st = "ok"
    /\ (SomeFetchFailed /\ pc = "done") =>
        /\ result.tag = "Err"
        /\ parts = <<>> /\ buffers.tag = "None"
    /\ SomeFetchFailed => result.tag \in {"None", "Err"}

\* C24 witness: two streams were announced, both fetches succeeded and the
\* container returned holds the two stream chunks
C24_Witness ==
    /\ result.tag = "Ok"
    /\ Announced = 2
    /\ collected = <<0, 1>>
    /\ Len(OfType(PartChunks, 1)) = 2

\* Of two stream fetches one succeeded and one failed: an error was returned
C24_OneFetchFailed ==
    /\ pc = "done" /\ result.tag = "Err"
    /\ DOMAIN tasks = {0, 1}
    /\ tasks[0].st = "ok" /\ tasks[1].st = "err"

----------------------------------------------------------------------------
\* The pre-calculated size of build_replay (SpecBuild)

\* The chunks of unknown type in the part list
UnknownCount == Cardinality({ k \in 1..Len(parts) : UnknownPart(parts[k]) })

\* C25: for every part list, the total size build_replay computes in its
\* first pass equals the length of the byte buffer it returns.
C25_SizeEqualsLength == Built => total_size = Len(buffers.v)

\* C25, the capacity: the buffer returned is never longer than the size
\* computed, so the output buffer never has to grow; the size computed is 8
\* bytes more than the buffer for each chunk of unknown type in the list
C25_NeverGrows ==
    Built =>
        /\ Len(buffers.v) <= total_size
        /\ total_size = Len(buffers.v) + 8 * UnknownCount

\* A container returned for a list with a chunk of unknown type
C25_UnknownInList == Built /\ UnknownCount > 0 /\ Len(buffers.v) > 0

----------------------------------------------------------------------------
\* Long display strings in build_meta (SpecMeta)

\* The friendly-name block of the record returned
NameBlock == Bytes(bm_result.v, 24, 514)

\* How many UTF-16 code units a string has: one for each character and one
\* more for each character outside the basic plane
UnitCount(s) == Len(s) + Cardinality({ k \in 1..Len(s) : s[k] >= 65536 })

\* The byte offsets at which a code unit of the encoded display string starts
\* or the string ends
UnitBoundaries(md) == { 2 * k : k \in 0..UnitCount(FriendlyNameStr(md)) }

\* The encoded display string of md is longer than the block and the end of
\* the block is no boundary of its code units
CutSplitsUnit(md) ==
    /\ 2 * UnitCount(FriendlyNameStr(md)) > 514
    /\ 514 \notin UnitBoundaries(md)

HighSurrogate(u) == u >= 55296 /\ u <= 56319

LowSurrogate(u) == u >= 56320 /\ u <= 57343

\* C26 as stated: a display string longer than 514 bytes is cut at 514 bytes,
\* and for some input the cut falls in the middle of a 2-byte code unit.
C26_CutSplitsCodeUnit ==
    /\ (bm_result.tag = "Ok" /\ Len(NameBytes) > 514) =>
            NameBlock = SubSeq(NameBytes, 1, 514)
    /\ \E md \in MetaInputs : CutSplitsUnit(md)

\* C26, amended: a display string longer than 514 bytes is cut at 514 bytes,
\* which is always a boundary of its code units (the encoding has two bytes
\* for each code unit): the block holds the first 257 code units whole, and
\* what the cut can separate is the two code units of a character outside the
\* basic plane.
C26_CutOnUnitBoundary ==
    (bm_result.tag = "Ok" /\ Len(NameBytes) > 514) =>
        /\ NameBlock = SubSeq(NameBytes, 1, 514)
        /\ Len(NameBytes) = 2 * UnitCount(FriendlyNameStr(bm_meta))
        /\ ~CutSplitsUnit(bm_meta)

\* C26 witness: the block ends with the first code unit of a character
\* outside the basic plane, whose second code unit was cut off
C26_Witness ==
    /\ bm_result.tag = "Ok" /\ Len(NameBytes) > 514
    /\ HighSurrogate(NameBlock[513] + 256 * NameBlock[514])
    /\ LowSurrogate(NameBytes[515] + 256 * NameBytes[516])

\* C27: in every record build_meta returns, record bytes 536 and 537, the
\* last two of the friendly-name block, are 0x00, 0x00.
C27_BlockNulTerminated ==
    bm_result.tag = "Ok" =>
        (bm_result.v[536 + 1] = 0 /\ bm_result.v[537 + 1] = 0)

\* C27, by length: the block ends with 0x00, 0x00 when the encoded display
\* string has at most 512 bytes, and with bytes 512 and 513 of the encoded
\* string when it has 514 or more
C27_TerminatedWhenShort ==
    bm_result.tag = "Ok" =>
        IF Len(NameBytes) <= 512
        THEN bm_result.v[536 + 1] = 0 /\ bm_result.v[537 + 1] = 0
        ELSE /\ Len(NameBytes) >= 514
             /\ bm_result.v[536 + 1] = NameBytes[513]
             /\ bm_result.v[537 + 1] = NameBytes[514]

\* A record whose block ends with the last letter of "false" instead of the
\* terminator
C27_TerminatorOverwritten ==
    /\ bm_result.tag = "Ok"
    /\ Len(NameBytes) = 514
    /\ bm_result.v[536 + 1] = 101 /\ bm_result.v[537 + 1] = 0

----------------------------------------------------------------------------
\* The created time and the callers of build_meta (SpecCreated)

\* A created string build_meta accepts: an RFC3339 instant, or else an
\* integer of Unix seconds that is a timestamp (up to the end of the year
\* 262142)
CreatedValid(created) ==
    \/ created.kind = "rfc3339"
    \/ created.kind = "int" /\ ~DigitsLess(MaxTimestamp, created.digits)

\* The instant build_meta reads from an accepted created string, in seconds
\* (as digits) and milliseconds: the RFC3339 reading where there is one
CreatedInstant(created) ==
    IF created.kind = "rfc3339"
    THEN [secs |-> NatDigits(created.secs), ms |-> created.ms]
    ELSE [secs |-> created.digits, ms |-> 0]

\* build_meta runs alone, download_replay runs, process_replay runs
MetaAlone == pc = "idle" /\ lp_pc = "idle"

Online == pc # "idle"

Local == lp_pc # "idle"

\* C28: build_meta reads created as RFC3339 and, failing that, as an integer
\* of Unix seconds; when neither reading succeeds, or the integer is no valid
\* timestamp, build_meta returns an error and no record, and download_replay
\* and process_replay return an error, assemble no container and write no
\* file.
C28_CreatedFallback ==
    /\ (MetaAlone /\ MetaBuilt) =>
        IF CreatedValid(bm_meta.created)
        THEN /\ bm_result.tag # "Err"
             /\ bm_result.tag = "Ok" =>
                    LET t == CreatedInstant(bm_meta.created)
                        millis == AddDigits(MulDigits(t.secs, 1000, 0),
                                            NatDigits(t.ms), 0)
                    IN  Bytes(bm_result.v, 542, 8) =
                            I64LE(AddDigits(MulDigits(millis, 10000, 0),
                                            EpochFormula, 0))
        ELSE /\ bm_result.tag = "Err"
             /\ "v" \notin DOMAIN bm_result
    /\ (Online /\ meta.some /\ ~CreatedValid(meta.v.created)) =>
        /\ result.tag \in {"None", "Err"}
        /\ parts = <<>> /\ buffers.tag = "None"
        /\ pc = "done" => result.tag = "Err"
    /\ (Local /\ chunks_dir.metadata.state = "ok" /\ LocalMeta.some
            /\ ~CreatedValid(LocalMeta.v.created)) =>
        /\ lp_result.tag \in {"None", "Err"}
        /\ parts = <<>> /\ buffers.tag = "None"
        /\ output_file.tag = "None"
        /\ lp_pc \in {"start", "done"}
        /\ lp_pc = "done" => lp_result.tag = "Err"

\* C28 witness: download_replay fetched everything, build_meta refused the
\* created string and download_replay returned the error
C28_Witness ==
    /\ Online /\ pc = "done"
    /\ meta.some /\ ~CreatedValid(meta.v.created)
    /\ DOMAIN tasks # {} /\ \A i \in DOMAIN tasks : tasks[i].st = "ok"
    /\ result.tag = "Err"

\* build_meta alone refused the integer 2^63 - 1 as an invalid timestamp
C28_InvalidTimestamp ==
    /\ MetaAlone
    /\ bm_result = [tag |-> "Err", err |-> "Invalid timestamp"]
    /\ bm_meta.created.kind = "int"

\* build_meta alone read an integer of Unix seconds
C28_IntegerRead ==
    /\ MetaAlone
    /\ bm_result.tag = "Ok"
    /\ bm_meta.created = [kind |-> "int", digits |-> <<1>>]

\* process_replay returned the error of build_meta and wrote no file
C28_LocalRefused ==
    /\ Local /\ lp_pc = "done"
    /\ chunks_dir.metadata.state = "ok" /\ LocalMeta.some
    /\ ~CreatedValid(LocalMeta.v.created)
    /\ chunks_dir.timing.state = "ok"
    /\ lp_result.tag = "Err"

----------------------------------------------------------------------------
\* The bodies of the event chunks in both pipelines

\* The bytes of an event's payload when the payload is there, is tagged
\* "Buffer" and holds bytes; no bytes otherwise
PayloadBytes(ev) ==
    IF ~ev.data.some THEN <<>>
    ELSE IF ev.data.v.typ # Some("Buffer") THEN <<>>
    ELSE IF ev.data.v.data.some THEN ev.data.v.data.v ELSE <<>>

\* The bodies the chunks of an event group are to have: one for each event
\* with id and group, in the order of the events
EventBodies(evs) ==
    LET emitted == SelectSeq(evs, LAMBDA ev : ev.id.some /\ ev.group.some)
    IN  [k \in 1..Len(emitted) |-> PayloadBytes(emitted[k])]

\* The data of the chunks of a type, in list order
DataOfType(chunks, t) ==
    LET typed == OfType(chunks, t)
    IN  [k \in 1..Len(typed) |-> typed[k].data]

\* C29: in the online pipeline every event with id and group becomes a chunk
\* whose data is the payload's bytes when the payload is tagged "Buffer" and
\* is empty otherwise.
C29_OnlineBodies ==
    ChunksAssembled =>
        /\ DataOfType(download_chunks, 2) = EventBodies(events)
        /\ DataOfType(download_chunks, 3) = EventBodies(events_pavlov)

\* C29, local pipeline: every event with id and group within the configured
\* count becomes a chunk whose data is the payload's bytes when the payload is
\* tagged "Buffer" and is empty otherwise.
C29_LocalBodies ==
    LocalBuilt =>
        /\ DataOfType(PartChunks, 3) =
                EventBodies(SubSeq(PavlovEvents, 1,
                                   Min(Len(PavlovEvents), Cfg.event_count)))
        /\ DataOfType(PartChunks, 2) =
                EventBodies(SubSeq(CheckpointEvents, 1,
                                   Min(Len(CheckpointEvents), Cfg.checkpoint_count)))

\* The local pipeline made chunks with empty data of an event tagged "Json"
\* and of an event without payload
C29_LocalEmptyBodies ==
    /\ LocalBuilt /\ config = None
    /\ PavlovEvents = <<EvA, EvOther, EvNoId>>
    /\ CheckpointEvents = <<EvB, EvNoData, EvA>>
    /\ DataOfType(PartChunks, 3) = <<<<4>>, <<>>>>
    /\ DataOfType(PartChunks, 2) = <<<<5, 6>>, <<>>, <<4>>>>

\* The local pipeline made a chunk with empty data of an untagged payload
C29_LocalUntagged ==
    /\ LocalBuilt /\ config = None
    /\ CheckpointEvents = <<EvUntagged>>
    /\ DataOfType(PartChunks, 2) = <<<<>>>>

\* The online pipeline copied the bytes of a payload tagged "Json" and made
\* no chunk of the event without payload
C29_OnlineDiverges ==
    /\ ChunksAssembled
    /\ events = <<EvB, EvNoData, EvA>> /\ events_pavlov = <<EvA, EvOther>>
    /\ DataOfType(download_chunks, 2) = <<<<5, 6>>, <<4>>>>
    /\ DataOfType(download_chunks, 3) = <<<<4>>, <<9>>>>

----------------------------------------------------------------------------
\* The body of a data chunk in the container (SpecBuild)

\* The value of an optional 32-bit field, 0 when unset
OrZero(o) == IF o.some THEN o.v ELSE 0

\* The parts of the list that are type-1 chunks
DataParts == { i \in 1..Len(parts) :
                parts[i].kind = "Chunk" /\ parts[i].chunk.chunk_type = 1 }

\* C30: for every type-1 chunk the container holds, after the chunk's 8-byte
\* header, the prefix [time1][time2][dataLen][sizeInBytes] of four
\* little-endian int32 and then the data verbatim: dataLen is len(data)
\* whatever size_in_bytes says, sizeInBytes is size_in_bytes when set and
\* dataLen when unset, an unset time1 or time2 is written as 0.
C30_DataChunkBody ==
    Built =>
        \A i \in DataParts :
            LET chunk == parts[i].chunk
                body == SumSegmentLen(parts, i - 1) + 8
                dataLen == Len(chunk.data)
            IN  /\ ReadLE4(buffers.v, body - 4) = 16 + dataLen
                /\ Bytes(buffers.v, body, 4) = Le32(OrZero(chunk.time1))
                /\ Bytes(buffers.v, body + 4, 4) = Le32(OrZero(chunk.time2))
                /\ Bytes(buffers.v, body + 8, 4) = Le32(dataLen)
                /\ Bytes(buffers.v, body + 12, 4) =
                        Le32(IF chunk.size_in_bytes.some
                             THEN chunk.size_in_bytes.v ELSE dataLen)
                /\ Bytes(buffers.v, body + 16, dataLen) = chunk.data

\* C30 witness: a container with the chunk of data [7], time1 unset, time2 =
\* -2 and size_in_bytes = 300, whose prefix is 0, -2, 1, 300
C30_Witness ==
    /\ Built
    /\ Len(parts) = 2 /\ parts[1].kind = "Meta"
    /\ 2 \in DataParts
    /\ parts[2].chunk.size_in_bytes = Some(300)
    /\ ~parts[2].chunk.time1.some
    /\ Bytes(buffers.v, Len(parts[1].data) + 8, 17) =
            <<0, 0, 0, 0, 254, 255, 255, 255, 1, 0, 0, 0, 44, 1, 0, 0, 7>>

\* ---------------------------------------------------------------------------
\* The body of an event chunk in the container (SpecBuild)
\* ---------------------------------------------------------------------------

\* The parts that are type-2 or type-3 chunks
EventParts ==
    { i \in 1..Len(parts) :
        parts[i].kind = "Chunk" /\ parts[i].chunk.chunk_type \in {2, 3} }

\* The body the format prescribes for an event chunk with id and group
EventBodyFormat(chunk) ==
    StringBuffer(chunk.id.v) \o StringBuffer(chunk.group.v)
        \o StringBuffer(IF chunk.metadata.some THEN chunk.metadata.v ELSE <<>>)
        \o Le32(OrZero(chunk.time1)) \o Le32(OrZero(chunk.time2))
        \o Le32(Len(chunk.data)) \o chunk.data

\* C31: for every type-2 or type-3 chunk with id and group the container
\* holds, after the chunk's 8-byte header, strbuf(id), strbuf(group),
\* strbuf(metadata or the empty string), then time1 or 0, time2 or 0 and
\* len(data) as little-endian int32, then the data; strbuf(s) is the int32
\* len(s) + 1, the UTF-8 bytes of s and one zero byte, so that an absent
\* metadata is the five bytes 1, 0, 0, 0, 0.
C31_EventChunkBody ==
    Built =>
        \A i \in EventParts :
            LET chunk == parts[i].chunk
                body == SumSegmentLen(parts, i - 1) + 8
                idLen == 4 + StrLen(chunk.id.v) + 1
                groupLen == 4 + StrLen(chunk.group.v) + 1
                expected == EventBodyFormat(chunk)
            IN  (chunk.id.some /\ chunk.group.some) =>
                    /\ Bytes(buffers.v, body, Len(expected)) = expected
                    /\ ReadLE4(buffers.v, body - 4) = Len(expected)
                    /\ ~chunk.metadata.some =>
                            Bytes(buffers.v, body + idLen + groupLen, 5) =
                                <<1, 0, 0, 0, 0>>

\* C31 witness: a container of the meta part and the type-2 chunk with id "a",
\* group "cp", no metadata, time1 = 3, no time2 and data [4], whose body is
\* 2,0,0,0,'a',0, 3,0,0,0,'c','p',0, 1,0,0,0,0, 3, 0, 1, 4
C31_Witness ==
    /\ Built
    /\ Len(parts) = 2 /\ parts[1].kind = "Meta"
    /\ 2 \in EventParts
    /\ ~parts[2].chunk.metadata.some
    /\ parts[2].chunk.id = Some(StrA)
    /\ Bytes(buffers.v, Len(parts[1].data) + 8, 31) =
            <<2, 0, 0, 0, 97, 0, 3, 0, 0, 0, 99, 112, 0, 1, 0, 0, 0, 0,
              3, 0, 0, 0, 0, 0, 0, 0, 1, 0, 0, 0, 4>>

\* ---------------------------------------------------------------------------
\* The length fields of a chunk, from the lengths of its data and strings
\* (SpecLengths). A usize is kept as its little-endian base-256 digits, so
\* that lengths of 2^31 bytes and more are within reach.
\* ---------------------------------------------------------------------------

\* `n as i32` followed by to_le_bytes, for a usize n kept as digits: the low
\* four bytes
CastI32LE(d) == [i \in 1..4 |-> IF i <= Len(d) THEN d[i] ELSE 0]

\* One length field: the byte count it describes and the four bytes written
LengthField(name, count) ==
    [name |-> name, count |-> count, field |-> CastI32LE(count)]

\* s_bytes.len() of write_string_buffer: the string's bytes and the terminator
StringBytesLen(len) == AddDigits(len, <<1>>, 0)

\* The length fields of the second pass for one chunk: data_len, the lengths
\* of the string buffers and the header's body_len
LengthFields(ch) ==
    CASE ch.chunk_type = 0 ->
            <<LengthField("bodyLength", ch.data_len)>>
      [] ch.chunk_type = 1 ->
            <<LengthField("dataLen", ch.data_len),
              LengthField("bodyLength", AddDigits(<<16>>, ch.data_len, 0))>>
      [] ch.chunk_type \in {2, 3} ->
            LET id_len == StringBytesLen(ch.id_len)
                group_len == StringBytesLen(ch.group_len)
                meta_len == StringBytesLen(UnwrapOr(ch.metadata_len, <<>>))
                id_buf == AddDigits(<<4>>, id_len, 0)
                group_buf == AddDigits(<<4>>, group_len, 0)
                meta_buf == AddDigits(<<4>>, meta_len, 0)
                body == AddDigits(
                            AddDigits(AddDigits(id_buf, group_buf, 0), meta_buf, 0),
                            AddDigits(<<12>>, ch.data_len, 0), 0)
            IN  <<LengthField("idLen", id_len),
                  LengthField("groupLen", group_len),
                  LengthField("metadataLen", meta_len),
                  LengthField("dataLen", ch.data_len),
                  LengthField("bodyLength", body)>>

\* Lengths: 0, 1, 2, 2^31 - 40, 2^31 - 16, 2^31 - 1 and 2^31
Len0 == <<>>

Len1 == <<1>>

Len2 == <<2>>

LenNearMax == <<216, 255, 255, 127>>

LenMaxLess15 == <<240, 255, 255, 127>>

LenI32Max == <<255, 255, 255, 127>>

LenOverI32 == <<0, 0, 0, 128>>

DataLens == {Len0, Len1, LenNearMax, LenMaxLess15, LenI32Max, LenOverI32}

StringLens == {Len1, Len2, LenI32Max}

\* The chunks by their lengths: every type, short and long data and strings
LengthInputs ==
    { [chunk_type |-> t, data_len |-> d] : t \in {0, 1}, d \in DataLens }
    \cup { [chunk_type |-> t, data_len |-> d, id_len |-> i, group_len |-> Len1,
            metadata_len |-> md] :
            t \in {2, 3}, d \in DataLens, i \in StringLens,
            md \in {None, Some(Len0), Some(Len2)} }

InitLengths ==
    /\ lf_chunk \in LengthInputs
    /\ lf_fields = <<>>
    /\ uiIdle
    /\ overflow_checks = FALSE
    /\ brIdle /\ rtIdle /\ dlIdle /\ bmIdle /\ rbIdle /\ prIdle
    /\ call = NoCall

\* The second pass over one chunk
ComputeLengths ==
    /\ lf_chunk # NoLengths
    /\ lf_fields = <<>>
    /\ lf_fields' = LengthFields(lf_chunk)
    /\ UNCHANGED <<coreVars, overflow_checks, lf_chunk, uiVars, bmVars, rbVars, prVars>>

NextLengths == ComputeLengths

SpecLengths == InitLengths /\ [][NextLengths]_vars

\* a usize below 2^31, as an i32 would hold it
FitsI32(d) == Len(d) < 4 \/ (Len(d) = 4 /\ d[4] < 128)

\* The field read back as the i32 it is
FieldValue(f) ==
    IF f[4] < 128 THEN f[1] + 256 * f[2] + 65536 * f[3] + 16777216 * f[4]
    ELSE (f[1] + 256 * f[2] + 65536 * f[3] + 16777216 * (f[4] - 128))
            - 2147483647 - 1

\* The field is non-negative and is the byte count it describes
FieldKept(lf) ==
    /\ FieldValue(lf.field) >= 0
    /\ NatDigits(FieldValue(lf.field)) = lf.count

LengthsComputed == lf_fields # <<>>

\* Every length field is kept when each byte count fits an i32
LengthsKeptWhenCountsFit ==
    LengthsComputed =>
        \A k \in 1..Len(lf_fields) :
            FitsI32(lf_fields[k].count) => FieldKept(lf_fields[k])

\* C32: when the chunk's data length fits a signed 32-bit integer, every
\* length field written for it (dataLen, the string-buffer lengths, the
\* header's bodyLength) is non-negative and is the byte count it describes.
C32_LengthFieldsKept ==
    (LengthsComputed /\ FitsI32(lf_chunk.data_len)) =>
        \A k \in 1..Len(lf_fields) : FieldKept(lf_fields[k])

\* A data chunk of 2^31 - 16 bytes, a length that fits an i32, whose body of
\* 2^31 bytes gets the bodyLength bytes 00 00 00 80, that is -2147483648
C32_BodyLengthWraps ==
    /\ LengthsComputed
    /\ lf_chunk = [chunk_type |-> 1, data_len |-> LenMaxLess15]
    /\ lf_fields[1].field = <<240, 255, 255, 127>>
    /\ lf_fields[2].name = "bodyLength"
    /\ lf_fields[2].count = <<0, 0, 0, 128>>
    /\ lf_fields[2].field = <<0, 0, 0, 128>>
    /\ FieldValue(lf_fields[2].field) = -2147483647 - 1

\* ---------------------------------------------------------------------------
\* The buffer's length and cursor over a run of calls (SpecBuffer)
\* ---------------------------------------------------------------------------

\* What the call just made adds to the cursor: its size when it is a write
\* that returned Ok, nothing when it failed or is validate
CursorGain ==
    IF IsWrite /\ rbuf_call.ret.ok THEN WriteSize ELSE 0

\* One call: the length stays, the cursor grows by the size of a successful
\* write and stays otherwise, within 0..capacity
CursorStep ==
    /\ Len(rbuf'.buffer) = Len(rbuf.buffer)
    /\ rbuf'.pos = rbuf.pos + CursorGain'
    /\ rbuf'.pos >= rbuf.pos
    /\ 0 <= rbuf'.pos /\ rbuf'.pos <= Len(rbuf'.buffer)

\* C33: a buffer built with capacity C starts with length C and cursor 0, and
\* every write_int32, write_int64, write_bytes or validate call, successful
\* or failed, keeps the length, adds to the cursor the size of the write when
\* it succeeded and nothing otherwise, and leaves the cursor within 0..C: so
\* after any run of calls the length is C, the cursor is the sum of the sizes
\* of the successful writes and has never decreased.
C33_LengthAndCursor ==
    /\ rbuf.pos = 0 /\ Len(rbuf.buffer) \in 0..MaxCapacity
    /\ [][CursorStep]_vars

\* C33 witness: a buffer of capacity 9 with the cursor at 7 after successful
\* writes (7 = 4 + 3), on which write_int64 has just failed and validate would
\* fail for 9: length and cursor are as before the call
C33_Witness ==
    /\ rbuf_call.op = "write_int64"
    /\ ~rbuf_call.ret.ok
    /\ Len(rbuf.buffer) = 9
    /\ rbuf.pos = 7
    /\ rbuf_call.before.pos = 7
    /\ rbuf.buffer[5] = 8

\* ---------------------------------------------------------------------------
\* The Progress snapshots of process_replay (SpecLocal)
\* ---------------------------------------------------------------------------

Counters == {"header", "data_chunks", "event_chunks", "checkpoint_chunks"}

\* The k-th snapshot changes the counter f
Changes(k, f) ==
    k > 1 /\ snapshots[k][f].current # snapshots[k - 1][f].current

\* No change of counter late comes before a change of counter early
Precedes(early, late) ==
    \A j, k \in 1..Len(snapshots) :
        (j < k /\ Changes(j, late)) => ~Changes(k, early)

\* C34: in the snapshots passed to the callback so far, every counter has
\* current <= max, every max is the one of the first snapshot, no current
\* decreases from a snapshot to the next, and the phases are ordered: the
\* header is at 1 of 1 before data_chunks changes, data_chunks changes come
\* before event_chunks changes, which come before checkpoint_chunks changes.
C34_SnapshotsOrdered ==
    \A k \in 1..Len(snapshots) :
        /\ \A f \in Counters :
            /\ snapshots[k][f].current <= snapshots[k][f].max
            /\ snapshots[k][f].max = snapshots[1][f].max
            /\ k > 1 => snapshots[k][f].current >= snapshots[k - 1][f].current
        /\ Changes(k, "data_chunks") =>
                snapshots[k - 1].header = ProgressUpdate(1, 1)
        /\ Changes(k, "header") => k = 2
        /\ Precedes("header", "data_chunks")
        /\ Precedes("data_chunks", "event_chunks")
        /\ Precedes("data_chunks", "checkpoint_chunks")
        /\ Precedes("event_chunks", "checkpoint_chunks")

\* C34 witness: a finished run whose snapshots show all four phases: the
\* first with every current at 0, the header step, then data, Pavlov event
\* and checkpoint changes
C34_Witness ==
    /\ lp_pc = "done" /\ lp_result.tag = "Ok"
    /\ Len(snapshots) >= 6
    /\ snapshots[1].header = ProgressUpdate(0, 1)
    /\ \E i, j, k \in 3..Len(snapshots) :
        /\ i < j /\ j < k
        /\ Changes(i, "data_chunks")
        /\ Changes(j, "event_chunks")
        /\ Changes(k, "checkpoint_chunks")
    /\ snapshots[Len(snapshots)].data_chunks.current >= 2

\* ---------------------------------------------------------------------------
\* The last Progress snapshot of a successful process_replay (SpecLocal)
\* ---------------------------------------------------------------------------

LocalOk == lp_pc = "done" /\ lp_result.tag = "Ok"

LastSnapshot == snapshots[Len(snapshots)]

\* The stream files the loop reaches: those below the configured count
StreamsInCount ==
    SubSeq(stream_files, 1, Min(Len(stream_files), Cfg.data_count))

\* C35: when process_replay returns Ok, the last snapshot passed to the
\* callback has current = max for header, data_chunks, event_chunks and
\* checkpoint_chunks, whatever the chunk directory holds.
C35_LastSnapshotComplete ==
    LocalOk =>
        \A f \in Counters : LastSnapshot[f].current = LastSnapshot[f].max

\* The other counters are complete on every successful return, and
\* data_chunks too unless the last stream file within the count is empty
C35_CompleteButForEmptyLast ==
    LocalOk =>
        /\ \A f \in Counters \ {"data_chunks"} :
                LastSnapshot[f].current = LastSnapshot[f].max
        /\ (StreamsInCount = <<>>
                \/ StreamsInCount[Len(StreamsInCount)].data # <<>>) =>
                LastSnapshot.data_chunks.current = LastSnapshot.data_chunks.max

\* A successful run whose last stream file is empty: data_chunks ends below
\* its max
C35_EmptyLastFile ==
    /\ LocalOk
    /\ StreamsInCount # <<>>
    /\ StreamsInCount[Len(StreamsInCount)].data = <<>>
    /\ LastSnapshot.data_chunks.current < LastSnapshot.data_chunks.max

\* A successful run with an event that lacks id or group and is counted
C35_EventWithoutIdCounted ==
    /\ LocalOk
    /\ \E k \in 1..Min(Len(PavlovEvents), Cfg.event_count) :
            ~PavlovEvents[k].id.some \/ ~PavlovEvents[k].group.some
    /\ LastSnapshot.event_chunks.current = LastSnapshot.event_chunks.max
    /\ LastSnapshot.event_chunks.max > 0

\* ---------------------------------------------------------------------------
\* app.rs: the UI thread, the download workers and the local-processing
\* workers (SpecApp). A mutex section of a worker is two steps, lock() and
\* the body with the release at the end of its block; a network request or a
\* file operation is a step of its own with every outcome. The UI thread runs
\* update() frame after frame; what the user does in a frame is drawn from
\* the buttons the frame shows.
\* ---------------------------------------------------------------------------

\* The most worker threads spawned in a run: once they are spawned the user
\* clicks no download or start button and no listed replay matches the
\* auto-download trigger
MaxWorkers == 2

\* The replays the service lists, by id
ReplayList == <<"r1", "r2">>

\* Who holds a mutex
Ui == [t |-> "ui"]

Worker(k) == [t |-> "worker", k |-> k]

\* The status texts (an error e is left as a letter)
ErrorLoading == "Error loading replays: e"

ErrorDownload == "Error: Failed to download replay data: e"

ErrorMetadata == "Error: Failed to fetch replay metadata: e"

ErrorSave == "Error: Failed to save replay file: e"

ErrorWorkingDir == "Error: Failed to set working directory - e"

ErrorProcessing == "Error: e"

ProcessingComplete == "Replay processing complete."

\* str::contains over the status texts, for the two words update() looks for
StatusContains(text, word) ==
    CASE word = "complete" -> text = ProcessingComplete
      [] word = "Error" ->
            text \in { ErrorLoading, ErrorDownload, ErrorMetadata, ErrorSave,
                       ErrorWorkingDir, ErrorProcessing }

\* The status cell, by what its readers can tell of the text: update() looks
\* for the two words, the windows only draw the text
Shown(text) ==
    [complete |-> StatusContains(text, "complete"),
     error |-> StatusContains(text, "Error")]

\* A DownloadProgress value: the two counters it holds are only drawn as
\* bars, the model keeps that the cell holds a value
DownloadProgressValue == "progress"

\* The thread process_online_replay spawns, before its first step
NewDownload(id) ==
    [kind |-> "download", pc |-> "status_start", has_lock |-> FALSE,
     replay_id |-> id, replay_data |-> FALSE,
     written |-> FALSE, failed |-> None]

\* The thread start_processing spawns, before its first step
NewProcessing ==
    [kind |-> "local", pc |-> "chdir", has_lock |-> FALSE,
     replay_id |-> "", replay_data |-> FALSE,
     written |-> FALSE, failed |-> None]

\* What the UI thread's functions read and write: the fields of ReplayApp,
\* the status text, the worker threads
World == [app |-> app, status |-> app_status, workers |-> workers]

CanSpawn(ws) == Len(ws) < MaxWorkers

\* process_online_replay: the flags are set and the worker is spawned
process_online_replay(w, id) ==
    [w EXCEPT !.app.is_downloading = TRUE,
              !.app.downloading_replay_id = Some(id),
              !.workers = Append(@, NewDownload(id))]

\* The position in the list of the replay check_auto_download_triggers finds
TriggerMatches(w) ==
    { i \in 1..Len(w.app.replays) :
        /\ w.app.replays[i] \notin w.app.downloaded_replays
        /\ w.app.replays[i] \in settings.triggered
        /\ CanSpawn(w.workers) }

check_auto_download_triggers(w) ==
    IF \/ ~settings.auto_download_enabled
       \/ settings.triggered = {}
       \/ w.app.is_downloading
    THEN w
    ELSE IF TriggerMatches(w) = {} THEN w
    ELSE LET first == CHOOSE i \in TriggerMatches(w) :
                        \A j \in TriggerMatches(w) : i <= j
         IN  process_online_replay(
                [w EXCEPT !.status = Shown("Auto-downloading replay with user ID: u")],
                w.app.replays[first])

\* refresh_replays, with the outcome of fetch_replays. The first status text,
\* "Loading replays...", is replaced before the UI thread, the only reader of
\* the status, reads it.
refresh_replays(w, fetched) ==
    IF fetched
    THEN check_auto_download_triggers(
            [w EXCEPT !.status = Shown("Replays loaded successfully"),
                      !.app.replays = ReplayList])
    ELSE [w EXCEPT !.status = Shown(ErrorLoading)]

\* reset_state, the fields of ReplayApp
reset_state(a) ==
    [a EXCEPT !.is_processing_local = FALSE, !.is_downloading = FALSE,
              !.show_completion_dialog = FALSE]

\* The settings, with the listed replays whose users match the trigger and
\* the pages the user visits
SettingsInputs ==
    { [auto_download_enabled |-> FALSE, auto_refresh_enabled |-> TRUE,
       triggered |-> {}, pages |-> {"Main", "ProcessLocal"}],
      [auto_download_enabled |-> TRUE, auto_refresh_enabled |-> TRUE,
       triggered |-> {"r1"}, pages |-> {"Main", "ProcessLocal"}] }

\* The settings of a user with auto-download on who stays on the main page
MainPageSettings ==
    { [s EXCEPT !.pages = {"Main"}] :
        s \in { x \in SettingsInputs : x.auto_download_enabled } }

\* The variables the application leaves alone
appRest == <<coreVars, overflow_checks, lfVars, bmVars, rbVars, prVars>>

\* ReplayApp::new up to its struct literal
InitFields ==
    /\ app = [pc |-> "new", is_processing_local |-> FALSE,
              is_downloading |-> FALSE, selected_path |-> None,
              show_completion_dialog |-> FALSE, current_page |-> "Main",
              replays |-> <<>>, downloading_replay_id |-> None,
              downloaded_replays |-> {}]
    /\ app_status = Shown("Loading replays...")
    /\ app_progress = None
    /\ download_progress = None
    /\ locks = [status |-> Free, progress |-> Free, download_progress |-> Free]
    /\ workers = <<>>
    /\ downloaded_tx = <<>>
    /\ replay_files = {}
    /\ lfIdle
    /\ overflow_checks = FALSE
    /\ brIdle /\ rtIdle /\ dlIdle /\ bmIdle /\ rbIdle /\ prIdle

InitApp == InitFields /\ settings \in SettingsInputs

\* The end of ReplayApp::new: refresh_replays, then check_downloaded_replays
NewApp ==
    /\ app.pc = "new"
    /\ locks.status = Free
    /\ \E fetched \in BOOLEAN :
        LET w == refresh_replays(World, fetched)
        IN  /\ app' = [w.app EXCEPT !.pc = "render",
                                    !.downloaded_replays = @ \cup replay_files]
            /\ app_status' = w.status
            /\ workers' = w.workers
    /\ UNCHANGED <<app_progress, download_progress, locks, downloaded_tx,
                   settings, replay_files, appRest>>

\* render_download_progress up to the lock of download_progress
RenderDownloadProgress ==
    /\ app.pc = "render"
    /\ IF app.downloading_replay_id.some
       THEN /\ locks.download_progress = Free
            /\ locks' = [locks EXCEPT !.download_progress = Ui]
            /\ app' = [app EXCEPT !.pc = "render_locked"]
       ELSE /\ app' = [app EXCEPT !.pc = "dialog"]
            /\ UNCHANGED locks
    /\ UNCHANGED <<app_status, app_progress, download_progress, workers,
                   downloaded_tx, settings, replay_files, appRest>>

\* render_download_progress with download_progress locked: the window, which
\* locks the status to show it, or the reset of downloading_replay_id
RenderDownloadWindow ==
    /\ app.pc = "render_locked"
    /\ IF download_progress.some
       THEN /\ locks.status = Free
            /\ app' = [app EXCEPT !.pc = "dialog"]
       ELSE app' = [app EXCEPT !.pc = "dialog", !.downloading_replay_id = None]
    /\ locks' = [locks EXCEPT !.download_progress = Free]
    /\ UNCHANGED <<app_status, app_progress, download_progress, workers,
                   downloaded_tx, settings, replay_files, appRest>>

\* The ids in a channel
Received(ch) == { ch[i] : i \in 1..Len(ch) }

\* update(), lines 1391-1458: the downloaded channel is drained, the
\* completion dialog is shown (OK calls reset_state), the top panel selects
\* the page
DrainAndDialog ==
    /\ app.pc = "dialog"
    /\ downloaded_tx' = <<>>
    /\ \E page \in settings.pages :
        LET a == [app EXCEPT !.downloaded_replays = @ \cup Received(downloaded_tx),
                             !.current_page = page, !.pc = "page"]
        IN  IF ~app.show_completion_dialog
            THEN /\ app' = a
                 /\ UNCHANGED <<app_status, app_progress>>
            ELSE /\ locks.status = Free
                 /\ \E clicked \in BOOLEAN :
                        IF clicked
                        THEN /\ locks.progress = Free
                             /\ app' = reset_state(a)
                             /\ app_progress' = None
                             /\ app_status' = Shown("Idle")
                        ELSE /\ app' = a
                             /\ UNCHANGED <<app_status, app_progress>>
    /\ UNCHANGED <<download_progress, locks, workers, settings, replay_files,
                   appRest>>

\* render_main_page: nothing is clicked, or Refresh, or the download button
\* of a listed replay that is not downloaded and not the one downloading
RenderMainPage ==
    /\ app.pc = "page"
    /\ app.current_page = "Main"
    /\ \/ /\ app' = [app EXCEPT !.pc = "checks"]
          /\ UNCHANGED <<app_status, workers>>
       \/ /\ locks.status = Free
          /\ \E fetched \in BOOLEAN :
                LET w == refresh_replays(World, fetched)
                IN  /\ app' = [w.app EXCEPT !.pc = "checks"]
                    /\ app_status' = w.status
                    /\ workers' = w.workers
       \/ \E i \in 1..Len(app.replays) :
            LET id == app.replays[i]
                is_downloading == app.downloading_replay_id = Some(id)
                is_downloaded == id \in app.downloaded_replays
                w == process_online_replay(World, id)
            IN  /\ ~is_downloaded
                /\ ~is_downloading
                /\ CanSpawn(workers)
                /\ app' = [w.app EXCEPT !.pc = "checks"]
                /\ workers' = w.workers
                /\ UNCHANGED app_status
    /\ UNCHANGED <<app_progress, download_progress, locks, downloaded_tx,
                   settings, replay_files, appRest>>

\* render_process_page up to the progress bars: a directory is selected when
\* none is yet; with one, nothing is clicked or Start Processing is
\* (start_processing)
RenderProcessPage ==
    /\ app.pc = "page"
    /\ app.current_page = "ProcessLocal"
    /\ locks.progress = Free
    /\ \/ /\ app.selected_path.some
          /\ app' = [app EXCEPT !.pc = "page_status"]
          /\ UNCHANGED workers
       \/ /\ ~app.selected_path.some
          /\ app' = [app EXCEPT !.pc = "page_status", !.selected_path = Some("dir")]
          /\ UNCHANGED workers
       \/ /\ ~app.is_processing_local /\ ~app.show_completion_dialog
          /\ app.selected_path.some
          /\ CanSpawn(workers)
          /\ app' = [app EXCEPT !.pc = "page_status", !.is_processing_local = TRUE]
          /\ workers' = Append(workers, NewProcessing)
    /\ UNCHANGED <<app_status, app_progress, download_progress, locks,
                   downloaded_tx, settings, replay_files, appRest>>

\* render_process_page, the status line
RenderProcessStatus ==
    /\ app.pc = "page_status"
    /\ locks.status = Free
    /\ app' = [app EXCEPT !.pc = "checks"]
    /\ UNCHANGED <<app_status, app_progress, download_progress, locks, workers,
                   downloaded_tx, settings, replay_files, appRest>>

\* update(), lines 1460-1471: the status is read for the end of the local
\* processing, is_downloading follows downloading_replay_id
UpdateFlags ==
    /\ app.pc = "checks"
    /\ app.is_processing_local => locks.status = Free
    /\ LET ended == /\ app.is_processing_local
                    /\ (app_status.complete \/ app_status.error)
           a == IF ended
                THEN [app EXCEPT !.show_completion_dialog = TRUE,
                                 !.is_processing_local = FALSE]
                ELSE app
       IN  app' = [a EXCEPT !.pc = "auto",
                            !.is_downloading =
                                IF @ /\ ~a.downloading_replay_id.some
                                THEN FALSE ELSE @]
    /\ UNCHANGED <<app_status, app_progress, download_progress, locks, workers,
                   downloaded_tx, settings, replay_files, appRest>>

\* The end of update(). The top panel of every frame lets the user choose the
\* page anew, so the page is not carried over to the next frame.
EndFrame(a) == [a EXCEPT !.pc = "render", !.current_page = "Main"]

\* update(), lines 1473-1482: the automatic refresh when its interval has
\* elapsed, or else the auto-download trigger
AutoRefresh ==
    /\ app.pc = "auto"
    /\ \E elapsed \in BOOLEAN :
        IF /\ settings.auto_refresh_enabled /\ elapsed
           /\ app.current_page = "Main" /\ ~app.is_downloading
        THEN /\ locks.status = Free
             /\ \E fetched \in BOOLEAN :
                    LET w == refresh_replays(World, fetched)
                    IN  /\ app' = EndFrame(w.app)
                        /\ app_status' = w.status
                        /\ workers' = w.workers
        ELSE IF /\ settings.auto_download_enabled /\ ~app.is_downloading
                /\ app.current_page = "Main"
        THEN LET w == check_auto_download_triggers(World)
             IN  /\ w # World => locks.status = Free
                 /\ app' = EndFrame(w.app)
                 /\ app_status' = w.status
                 /\ workers' = w.workers
        ELSE /\ app' = EndFrame(app)
             /\ UNCHANGED <<app_status, workers>>
    /\ UNCHANGED <<app_progress, download_progress, locks, downloaded_tx,
                   settings, replay_files, appRest>>

\* The mutex a download worker locks at each place, "none" where it locks none
DownloadLock(at) ==
    CASE at \in {"status_start", "status_client", "status_ok", "status_err"} ->
            "status"
      [] at \in {"init_progress", "callback", "build_0", "build_90", "build_100",
                 "clear"} -> "download_progress"
      [] OTHER -> "none"

\* The mutex a local-processing worker locks at each place
ProcessingLock(at) ==
    CASE at \in {"status_chdir", "status_result"} -> "status"
      [] at = "callback" -> "progress"
      [] OTHER -> "none"

WantedLock(w) ==
    IF w.kind = "download" THEN DownloadLock(w.pc) ELSE ProcessingLock(w.pc)

\* Mutex::lock of a worker: it waits until the mutex is free
WorkerLock(k) ==
    /\ WantedLock(workers[k]) # "none"
    /\ ~workers[k].has_lock
    /\ locks[WantedLock(workers[k])] = Free
    /\ locks' = [locks EXCEPT ![WantedLock(workers[k])] = Worker(k)]
    /\ workers' = [workers EXCEPT ![k].has_lock = TRUE]
    /\ UNCHANGED <<app, app_status, app_progress, download_progress,
                   downloaded_tx, settings, replay_files, appRest>>

\* Worker k is in its mutex section at the place `at`
InSection(k, kind, at) ==
    /\ workers[k].kind = kind
    /\ workers[k].pc = at
    /\ workers[k].has_lock

\* Worker k is at the place `at`, outside a mutex section
AtStep(k, kind, at) ==
    /\ workers[k].kind = kind
    /\ workers[k].pc = at
    /\ ~workers[k].has_lock

\* The end of the block of a mutex section: the guard is dropped
Unlock(k, next) ==
    /\ locks' = [locks EXCEPT ![WantedLock(workers[k])] = Free]
    /\ workers' = [workers EXCEPT ![k].has_lock = FALSE, ![k].pc = next]

\* Lines 399-401
DownloadStatusStart(k) ==
    /\ InSection(k, "download", "status_start")
    /\ app_status' = Shown("Downloading replay...")
    /\ Unlock(k, "client")
    /\ UNCHANGED <<app, app_progress, download_progress, downloaded_tx,
                   settings, replay_files, appRest>>

\* Lines 403-411: Client::builder().build()
DownloadClient(k) ==
    /\ AtStep(k, "download", "client")
    /\ \E built \in BOOLEAN :
        workers' = [workers EXCEPT ![k].pc =
                        IF built THEN "init_progress" ELSE "status_client"]
    /\ UNCHANGED <<app, app_status, app_progress, download_progress, locks,
                   downloaded_tx, settings, replay_files, appRest>>

\* Lines 406-409: the client could not be built, the thread returns
DownloadStatusClient(k) ==
    /\ InSection(k, "download", "status_client")
    /\ app_status' = Shown("Failed to initialize HTTP client: e")
    /\ Unlock(k, "done")
    /\ UNCHANGED <<app, app_progress, download_progress, downloaded_tx,
                   settings, replay_files, appRest>>

\* Lines 414-416
DownloadInitProgress(k) ==
    /\ InSection(k, "download", "init_progress")
    /\ download_progress' = Some(DownloadProgressValue)
    /\ Unlock(k, "download")
    /\ UNCHANGED <<app, app_status, app_progress, downloaded_tx, settings,
                   replay_files, appRest>>

\* download_replay calls the progress callback (one call is followed)
DownloadCalls(k) ==
    /\ AtStep(k, "download", "download")
    /\ workers' = [workers EXCEPT ![k].pc = "callback"]
    /\ UNCHANGED <<app, app_status, app_progress, download_progress, locks,
                   downloaded_tx, settings, replay_files, appRest>>

\* Lines 418-428: the callback
DownloadCallback(k) ==
    /\ InSection(k, "download", "callback")
    /\ download_progress' =
            IF download_progress.some THEN Some(DownloadProgressValue)
            ELSE download_progress
    /\ Unlock(k, "download_rest")
    /\ UNCHANGED <<app, app_status, app_progress, downloaded_tx, settings,
                   replay_files, appRest>>

\* Lines 431-434: download_replay returns the bytes or an error
DownloadReturns(k) ==
    /\ workers[k].kind = "download"
    /\ workers[k].pc \in {"download", "download_rest"}
    /\ ~workers[k].has_lock
    /\ \E ok \in BOOLEAN :
        workers' = IF ok
                   THEN [workers EXCEPT ![k].pc = "build_0",
                                        ![k].replay_data = TRUE]
                   ELSE [workers EXCEPT ![k].pc = "status_err",
                                        ![k].failed = Some(ErrorDownload)]
    /\ UNCHANGED <<app, app_status, app_progress, download_progress, locks,
                   downloaded_tx, settings, replay_files, appRest>>

\* update_build_progress: the calls before the metadata request (0), between
\* it and the write of the file (10 to 90), and after the write (100)
DownloadBuildProgress(k) ==
    /\ workers[k].kind = "download"
    /\ workers[k].pc \in {"build_0", "build_90", "build_100"}
    /\ workers[k].has_lock
    /\ LET next == CASE workers[k].pc = "build_0" -> "meta"
                     [] workers[k].pc = "build_90" -> "write"
                     [] workers[k].pc = "build_100" -> "send"
       IN  /\ download_progress' =
                IF download_progress.some THEN Some(DownloadProgressValue)
                ELSE download_progress
           /\ Unlock(k, next)
    /\ UNCHANGED <<app, app_status, app_progress, downloaded_tx, settings,
                   replay_files, appRest>>

\* Lines 447-493: the metadata request, its parsing and the date
DownloadMetadata(k) ==
    /\ AtStep(k, "download", "meta")
    /\ \E ok \in BOOLEAN :
        workers' = IF ok
                   THEN [workers EXCEPT ![k].pc = "build_90"]
                   ELSE [workers EXCEPT ![k].pc = "status_err",
                                        ![k].failed = Some(ErrorMetadata)]
    /\ UNCHANGED <<app, app_status, app_progress, download_progress, locks,
                   downloaded_tx, settings, replay_files, appRest>>

\* DownloadWrite going on to the send after a failed write
DownloadWriteMutIgnoresError(k) ==
    /\ AtStep(k, "download", "write")
    /\ \E ok \in BOOLEAN :
        IF ok
        THEN /\ workers' = [workers EXCEPT ![k].pc = "build_100",
                                           ![k].written = TRUE]
             /\ replay_files' = replay_files \cup {workers[k].replay_id}
        ELSE /\ workers' = [workers EXCEPT ![k].pc = "build_100"]
             /\ UNCHANGED replay_files
    /\ UNCHANGED <<app, app_status, app_progress, download_progress, locks,
                   downloaded_tx, settings, appRest>>

\* Lines 517-522: fs::write of the container
DownloadWrite(k) ==
    /\ AtStep(k, "download", "write")
    /\ \E ok \in BOOLEAN :
        IF ok
        THEN /\ workers' = [workers EXCEPT ![k].pc = "build_100",
                                           ![k].written = TRUE]
             /\ replay_files' = replay_files \cup {workers[k].replay_id}
        ELSE /\ workers' = [workers EXCEPT ![k].pc = "status_err",
                                           ![k].failed = Some(ErrorSave)]
             /\ UNCHANGED replay_files
    /\ UNCHANGED <<app, app_status, app_progress, download_progress, locks,
                   downloaded_tx, settings, appRest>>

\* Line 524: downloaded_tx.send
DownloadSend(k) ==
    /\ AtStep(k, "download", "send")
    /\ downloaded_tx' = Append(downloaded_tx, workers[k].replay_id)
    /\ workers' = [workers EXCEPT ![k].pc = "status_ok"]
    /\ UNCHANGED <<app, app_status, app_progress, download_progress, locks,
                   settings, replay_files, appRest>>

\* Lines 526-528
DownloadStatusOk(k) ==
    /\ InSection(k, "download", "status_ok")
    /\ app_status' = Shown("Replay downloaded and processed successfully.")
    /\ Unlock(k, "clear")
    /\ UNCHANGED <<app, app_progress, download_progress, downloaded_tx,
                   settings, replay_files, appRest>>

\* DownloadStatusErr keeping the status guard alive until the end of the thread
DownloadStatusErrMutKeepsGuard(k) ==
    /\ InSection(k, "download", "status_err")
    /\ app_status' = Shown(workers[k].failed.v)
    /\ UNCHANGED locks
    /\ workers' = [workers EXCEPT ![k].has_lock = FALSE, ![k].pc = "clear",
                                  ![k].failed = None, ![k].replay_data = FALSE]
    /\ UNCHANGED <<app, app_progress, download_progress, downloaded_tx,
                   settings, replay_files, appRest>>

\* Lines 533-537: the error of the closure is shown and dropped
DownloadStatusErr(k) ==
    /\ InSection(k, "download", "status_err")
    /\ app_status' = Shown(workers[k].failed.v)
    /\ locks' = [locks EXCEPT !.status = Free]
    /\ workers' = [workers EXCEPT ![k].has_lock = FALSE, ![k].pc = "clear",
                                  ![k].failed = None, ![k].replay_data = FALSE]
    /\ UNCHANGED <<app, app_progress, download_progress, downloaded_tx,
                   settings, replay_files, appRest>>

\* DownloadClearProgress leaving the cell as it is
DownloadClearProgressMutKeepsCell(k) ==
    /\ InSection(k, "download", "clear")
    /\ download_progress' = download_progress
    /\ Unlock(k, "done")
    /\ UNCHANGED <<app, app_status, app_progress, downloaded_tx, settings,
                   replay_files, appRest>>

\* Lines 539-541
DownloadClearProgress(k) ==
    /\ InSection(k, "download", "clear")
    /\ download_progress' = None
    /\ Unlock(k, "done")
    /\ UNCHANGED <<app, app_status, app_progress, downloaded_tx, settings,
                   replay_files, appRest>>

\* Lines 360-365: std::env::set_current_dir
ProcessingChdir(k) ==
    /\ AtStep(k, "local", "chdir")
    /\ \E ok \in BOOLEAN :
        workers' = [workers EXCEPT ![k].pc =
                        IF ok THEN "process" ELSE "status_chdir"]
    /\ UNCHANGED <<app, app_status, app_progress, download_progress, locks,
                   downloaded_tx, settings, replay_files, appRest>>

\* Lines 361-363: the directory could not be entered, the thread returns
ProcessingStatusChdir(k) ==
    /\ InSection(k, "local", "status_chdir")
    /\ app_status' = Shown(ErrorWorkingDir)
    /\ Unlock(k, "done")
    /\ UNCHANGED <<app, app_progress, download_progress, downloaded_tx,
                   settings, replay_files, appRest>>

\* process_replay calls update_callback (one call is followed)
ProcessingCalls(k) ==
    /\ AtStep(k, "local", "process")
    /\ workers' = [workers EXCEPT ![k].pc = "callback"]
    /\ UNCHANGED <<app, app_status, app_progress, download_progress, locks,
                   downloaded_tx, settings, replay_files, appRest>>

\* Lines 368-372: the callback
ProcessingCallback(k) ==
    /\ InSection(k, "local", "callback")
    /\ app_progress' = Some("progress")
    /\ Unlock(k, "process_rest")
    /\ UNCHANGED <<app, app_status, download_progress, downloaded_tx, settings,
                   replay_files, appRest>>

\* Line 376: process_replay returns
ProcessingReturns(k) ==
    /\ workers[k].kind = "local"
    /\ workers[k].pc \in {"process", "process_rest"}
    /\ ~workers[k].has_lock
    /\ \E ok \in BOOLEAN :
        workers' = [workers EXCEPT ![k].pc = "status_result",
                                   ![k].failed = IF ok THEN None
                                                 ELSE Some(ErrorProcessing)]
    /\ UNCHANGED <<app, app_status, app_progress, download_progress, locks,
                   downloaded_tx, settings, replay_files, appRest>>

\* Lines 378-383: the worker's final status
ProcessingStatusResult(k) ==
    /\ InSection(k, "local", "status_result")
    /\ app_status' = IF workers[k].failed.some THEN Shown(workers[k].failed.v)
                     ELSE Shown(ProcessingComplete)
    /\ locks' = [locks EXCEPT !.status = Free]
    /\ workers' = [workers EXCEPT ![k].has_lock = FALSE, ![k].pc = "done",
                                  ![k].failed = None]
    /\ UNCHANGED <<app, app_progress, download_progress, downloaded_tx,
                   settings, replay_files, appRest>>

\* One step of the download worker k
DownloadStep(k) ==
    \/ DownloadStatusStart(k) \/ DownloadClient(k) \/ DownloadStatusClient(k)
    \/ DownloadInitProgress(k) \/ DownloadCalls(k) \/ DownloadCallback(k)
    \/ DownloadReturns(k) \/ DownloadBuildProgress(k) \/ DownloadMetadata(k)
    \/ DownloadWrite(k) \/ DownloadSend(k) \/ DownloadStatusOk(k)
    \/ DownloadStatusErr(k) \/ DownloadClearProgress(k)

\* One step of the local-processing worker k
ProcessingStep(k) ==
    \/ ProcessingChdir(k) \/ ProcessingStatusChdir(k) \/ ProcessingCalls(k)
    \/ ProcessingCallback(k) \/ ProcessingReturns(k) \/ ProcessingStatusResult(k)

WorkerStep(k) == WorkerLock(k) \/ DownloadStep(k) \/ ProcessingStep(k)

\* One step of update() or of the constructor
UiStep ==
    \/ NewApp \/ RenderDownloadProgress \/ RenderDownloadWindow
    \/ DrainAndDialog \/ RenderMainPage \/ RenderProcessPage
    \/ RenderProcessStatus \/ UpdateFlags \/ AutoRefresh

NextApp == UiStep \/ \E k \in 1..Len(workers) : WorkerStep(k)

SpecApp == InitApp /\ [][NextApp]_vars

\* The application with a user who stays on the main page, the UI thread
\* drawing frame after frame and every worker getting the mutex it waits for
\* (the UI thread holds none between two frames)
InitDownloads == InitFields /\ settings \in MainPageSettings

DownloadUiStep ==
    \/ NewApp \/ RenderDownloadProgress \/ RenderDownloadWindow
    \/ DrainAndDialog \/ RenderMainPage \/ UpdateFlags \/ AutoRefresh

DownloadWorkerStep(k) ==
    /\ k \in 1..Len(workers)
    /\ (WorkerLock(k) \/ DownloadStep(k))

NextDownloads == DownloadUiStep \/ \E k \in 1..MaxWorkers : DownloadWorkerStep(k)

SpecDownloads ==
    /\ InitDownloads
    /\ [][NextDownloads]_vars
    /\ WF_vars(DownloadUiStep)
    /\ \A k \in 1..MaxWorkers : SF_vars(DownloadWorkerStep(k))

\* ---------------------------------------------------------------------------
\* The flags of a download and the number of download workers
\* ---------------------------------------------------------------------------

\* The download workers that have not finished
RunningDownloads ==
    { k \in 1..Len(workers) :
        workers[k].kind = "download" /\ workers[k].pc # "done" }

\* C36: while a download worker runs, is_downloading is true and
\* downloading_replay_id is set, and there is no second download worker
C36_OneDownloadAtATime ==
    /\ RunningDownloads # {} =>
          app.is_downloading /\ app.downloading_replay_id.some
    /\ Cardinality(RunningDownloads) <= 1

\* ---------------------------------------------------------------------------
\* What marks a replay as downloaded
\* ---------------------------------------------------------------------------

\* The IDs in the downloaded channel
InChannel == { downloaded_tx[i] : i \in 1..Len(downloaded_tx) }

\* Worker k got the bytes from download_replay and wrote the container file
WroteFile(k) ==
    /\ workers[k].kind = "download"
    /\ workers[k].replay_data
    /\ workers[k].written
    /\ ~workers[k].failed.some
    /\ workers[k].replay_id \in replay_files

\* A step that sends an ID is the step of a worker that wrote its file, and
\* the UI marks only IDs it received
MarkStep ==
    /\ downloaded_tx' # downloaded_tx /\ downloaded_tx' # <<>> =>
          \E k \in 1..Len(workers) :
              /\ WroteFile(k)
              /\ downloaded_tx' = Append(downloaded_tx, workers[k].replay_id)
    /\ app'.downloaded_replays \subseteq app.downloaded_replays \cup InChannel

\* C38: an ID enters the downloaded channel only from a worker whose
\* download_replay returned the bytes and whose write of the file succeeded,
\* and downloaded_replays gains only IDs taken from the channel
C38_MarkedAfterWrite ==
    /\ downloaded_tx = <<>>
    /\ app.downloaded_replays = {}
    /\ [][MarkStep]_vars

\* One download failed and is not marked, another was written and is marked
C38_Witness ==
    \E j, k \in 1..Len(workers) :
        /\ WroteFile(j)
        /\ workers[j].replay_id \in app.downloaded_replays
        /\ workers[k].kind = "download"
        /\ workers[k].pc = "done"
        /\ ~workers[k].written
        /\ workers[k].replay_id \notin app.downloaded_replays \cup InChannel

\* ---------------------------------------------------------------------------
\* The completion dialog of local processing
\* ---------------------------------------------------------------------------

\* The local-processing workers that have not finished
RunningLocal ==
    { k \in 1..Len(workers) :
        workers[k].kind = "local" /\ workers[k].pc # "done" }

\* update sets show_completion_dialog and clears is_processing_local
DialogTriggered ==
    /\ ~app.show_completion_dialog
    /\ app'.show_completion_dialog
    /\ app.is_processing_local
    /\ ~app'.is_processing_local

\* C39: the step of update that sets show_completion_dialog and clears
\* is_processing_local is taken only when the local-processing worker has
\* finished
C39_DialogAfterWorker == [][DialogTriggered => RunningLocal = {}]_vars

\* ---------------------------------------------------------------------------
\* The three mutexes
\* ---------------------------------------------------------------------------

\* The mutexes thread t holds
HeldBy(t) == { mx \in DOMAIN locks : locks[mx] = t }

\* The places where a worker is inside a network request or a file operation
IoPlaces ==
    { "client", "download", "download_rest", "meta", "write",
      "chdir", "process", "process_rest" }

\* Worker k has a step to take
WorkerCanStep(k) == ENABLED WorkerStep(k)

UiCanStep == ENABLED UiStep

\* Worker k has not finished and waits for a mutex
WorkerWaits(k) == workers[k].pc # "done" /\ ~WorkerCanStep(k)

\* The UI thread has a step to take, or it waits for a mutex and every worker
\* that holds one has a step to take
UiNotStuck ==
    \/ UiCanStep
    \/ /\ \E j \in 1..Len(workers) : HeldBy(Worker(j)) # {}
       /\ \A j \in 1..Len(workers) :
             HeldBy(Worker(j)) # {} => WorkerCanStep(j)

\* A thread that waits, waits for a mutex whose holder is not stuck
NoThreadStuck ==
    /\ UiNotStuck
    /\ \A k \in 1..Len(workers) :
          WorkerWaits(k) =>
              \/ locks[WantedLock(workers[k])] = Ui /\ UiNotStuck
              \/ \E j \in 1..Len(workers) :
                    /\ locks[WantedLock(workers[k])] = Worker(j)
                    /\ WorkerCanStep(j)

\* C40: no thread is stuck on the three mutexes, a worker holds at most one
\* of them, and none while it is in a request or a file operation
C40_NoDeadlock ==
    /\ NoThreadStuck
    /\ \A k \in 1..Len(workers) :
          /\ Cardinality(HeldBy(Worker(k))) <= 1
          /\ workers[k].pc \in IoPlaces => HeldBy(Worker(k)) = {}

\* The UI thread holds download_progress and waits for status, which a
\* worker holds, while the other worker waits for download_progress
C40_Witness ==
    /\ locks.download_progress = Ui
    /\ ~UiCanStep
    /\ \E j, k \in 1..Len(workers) :
          /\ locks.status = Worker(j)
          /\ WorkerWaits(k)
          /\ WantedLock(workers[k]) = "download_progress"

\* ---------------------------------------------------------------------------
\* The end of a download
\* ---------------------------------------------------------------------------

\* The k-th worker is a download worker
DownloadStarted(k) ==
    k \in 1..Len(workers) /\ workers[k].kind = "download"

\* The k-th worker has returned and the shared cell holds None
DownloadEnded(k) ==
    /\ DownloadStarted(k)
    /\ workers[k].pc = "done"
    /\ download_progress = None

\* The UI has cleared its two flags of the download
FlagsCleared ==
    ~app.downloading_replay_id.some /\ ~app.is_downloading

============================================================================
